---- MODULE Spec2Model ----
(***************************************************************************)
(* Verification model of the text-index core of valkey-search:             *)
(*   - InvasivePtr<T>, the intrusive reference-counted handle              *)
(*     (src/src/indexes/text/invasive_ptr.h);                              *)
(*   - Rax, the radix-tree wrapper with its WordIterator                   *)
(*     (src/unnamed/part_002, the wrapper over rax.c).                     *)
(*                                                                         *)
(* Five specifications share the variables:                                *)
(*   Spec     the trie: MutateTarget and the word iterator's loop;         *)
(*   SpecSeek the iterator's Next() and SeekForward() called freely;       *)
(*   SpecGet  Spec with GetWord()/GetTarget() called outside the loop;     *)
(*   SpecRef  handles used by concurrent threads, one thread per handle,   *)
(*            every atomic access of AddRef/ReleaseRef a step of its own;  *)
(*   SpecSeq  the same handle operations run by a single thread.           *)
(***************************************************************************)
EXTENDS Integers, Sequences, FiniteSets, TLC

(***************************************************************************)
(* Bounds of the model.                                                    *)
(***************************************************************************)
MaxHandles == 3      \* handle objects a program creates
MaxBlocks == 2       \* RefCountWrapper blocks a program allocates (Make calls)
MaxLen == 2          \* longest word or prefix handed to the trie
MaxWords == 2        \* most words stored in the trie at once
MaxRaw == 1          \* raw pointers held outside handles at once
MaxText == 3         \* longest text handed to the lexer
MaxAlloc == 2        \* blocks of the rax allocator live at once

Handles == 1 .. MaxHandles
Blocks == 1 .. MaxBlocks
Null == 0            \* nullptr

VARIABLES
    \* ---- InvasivePtr ----
    live,        \* live[h]: the handle object h exists (constructed, not yet destroyed)
    ptr_,        \* ptr_[h]: the block handle h points to, Null for an empty handle
    refcount_,   \* refcount_[b]: the atomic counter stored in block b
    heap,        \* heap[b]: "unused" (never allocated), "live", "freed"
    destroyed,   \* destroyed[b]: how many times `delete ptr_` ran on block b
    pc,          \* pc[h]: the step the thread working on handle h is at
    op,          \* op[h]: the operation in progress on h: [kind, other, old]
    uaf,         \* some access read or wrote a block that was already freed
    phase,       \* SpecRef: "copy" while handles are still copied, then "release"
    raw,         \* raw[b]: the raw pointers to block b that ReleaseRaw() handed out
                 \* and no AdoptRaw() has taken back (references held in void* slots)
    adopted,     \* SpecRaw: adopted[b]: the AdoptRaw() calls made on the raw pointer
                 \* to block b; there raw[b] falls below 0 when b is adopted more
                 \* often than it was handed out
    \* ---- Rax ----
    rax,         \* the radix tree: [data, numele]
    iter,        \* the one WordIterator of the read window
    yielded,     \* words the iteration loop has read with GetWord() so far
    pure,        \* the iterator has only been driven by the loop (no SeekForward)
    fatal,       \* a CHECK failed: the process is aborted
    installed,   \* installed[w]: what the mutate function returned in the most recent
                 \* MutateTarget call for word w (Null: never called, or it returned nullptr)
    last,        \* the most recent operation: [op, kind, arg, result, calls], with the
                 \* kind of mutate function, the target it was passed, the target it
                 \* returned and how many times it was invoked
    nodes,       \* the tree's nodes: nodes[p] is the node reached from the root by
                 \* the bytes p, [kind, target, bytes, label] (NoNode: none there)
    other,       \* SpecRead: the WordIterator of a second thread of the read window
    lex,         \* SpecLex: the Tokenize call, [op, text, punctuation, stop_words,
                 \* status, has_value, tokens]
    \* ---- rax_malloc.h ----
    alloc        \* SpecAlloc: [mem, call]: mem[a] is the block whose payload is at
                 \* address a, [live, usable, header, asked]; call is the most
                 \* recent allocator call, [fn, ptr, size, result]

hvars == <<live, ptr_, refcount_, heap, destroyed, pc, op, uaf, phase, raw, adopted>>
tvars == <<rax, iter, yielded, pure, fatal, installed, last, nodes, other, lex, alloc>>
vars == <<live, ptr_, refcount_, heap, destroyed, pc, op, uaf, phase, raw, adopted,
          rax, iter, yielded, pure, fatal, installed, last, nodes, other, lex, alloc>>

(***************************************************************************)
(* InvasivePtr                                                             *)
(***************************************************************************)
NoOp == [kind |-> "none", other |-> 0, old |-> Null]

\* fetch_add(1) / fetch_sub(1) on the uint32_t counter: the value the counter
\* holds afterwards.  A counter value is kept as the residue modulo 2^32 that is
\* nearest to zero, so -1 stands for 0xFFFFFFFF (what a decrement of 0 leaves);
\* no run of the model counts far enough to wrap at the other end.
FetchAdd(c) == c + 1
FetchSub(c) == c - 1

\* An access to the counter of block b: touching a freed block is a use after free.
Touch(b) == uaf' = (uaf \/ heap[b] # "live")

\* The values a load of block b's counter can produce.  A freed block's memory
\* holds anything: the load may or may not compare equal to zero.
Load(b) == IF heap[b] = "live" THEN {refcount_[b]} ELSE {0, 1}

Idle(h) == pc[h] = "idle"

\* InvasivePtr::Make: new RefCountWrapper, refcount_ = 1, returned in a fresh handle.
Make(h) ==
    /\ ~live[h] /\ Idle(h)
    /\ \E b \in Blocks :
        /\ heap[b] = "unused"
        /\ \A c \in Blocks : c < b => heap[c] # "unused"
        /\ heap' = [heap EXCEPT ![b] = "live"]
        /\ refcount_' = [refcount_ EXCEPT ![b] = 1]
        /\ ptr_' = [ptr_ EXCEPT ![h] = b]
    /\ live' = [live EXCEPT ![h] = TRUE]
    /\ UNCHANGED <<destroyed, pc, op, uaf>>

\* The step that follows ReleaseRef() in the operation that called it.
AfterRelease(h) ==
    CASE op[h].kind = "dtor" ->
            /\ live' = [live EXCEPT ![h] = FALSE]
            /\ ptr_' = [ptr_ EXCEPT ![h] = Null]
            /\ pc' = [pc EXCEPT ![h] = "idle"]
            /\ op' = [op EXCEPT ![h] = NoOp]
      [] op[h].kind = "clear" ->
            /\ ptr_' = [ptr_ EXCEPT ![h] = Null]
            /\ pc' = [pc EXCEPT ![h] = "idle"]
            /\ op' = [op EXCEPT ![h] = NoOp]
            /\ UNCHANGED live
      [] op[h].kind = "move" ->
            /\ pc' = [pc EXCEPT ![h] = "move_assign"]
            /\ UNCHANGED <<live, ptr_, op>>
      [] OTHER ->
            /\ pc' = [pc EXCEPT ![h] = "assign"]
            /\ UNCHANGED <<live, ptr_, op>>

\* An operation that begins with ReleaseRef(): `if (ptr_)` fails for an empty
\* handle and both blocks of ReleaseRef are skipped.
BeginRelease(h, o) ==
    IF ptr_[h] = Null
    THEN /\ op' = [op EXCEPT ![h] = o]
         /\ pc' = [pc EXCEPT ![h] = "released"]
         /\ UNCHANGED <<live, ptr_, refcount_, heap, destroyed, uaf>>
    ELSE /\ op' = [op EXCEPT ![h] = o]
         /\ pc' = [pc EXCEPT ![h] = "rel_load"]
         /\ UNCHANGED <<live, ptr_, refcount_, heap, destroyed, uaf>>

\* ~InvasivePtr()
Destructor(h) ==
    /\ live[h] /\ Idle(h)
    /\ BeginRelease(h, [kind |-> "dtor", other |-> 0, old |-> ptr_[h]])

\* Clear()
Clear(h) ==
    /\ live[h] /\ Idle(h)
    /\ BeginRelease(h, [kind |-> "clear", other |-> 0, old |-> ptr_[h]])

\* operator=(std::nullptr_t): this->Clear()
AssignNull(h) == Clear(h)

\* ReleaseRef: int old_count = refcount_.load(relaxed)
ReleaseRef_Load(h) ==
    /\ pc[h] = "rel_load"
    /\ Touch(ptr_[h])
    /\ pc' = [pc EXCEPT ![h] = "rel_sub"]
    /\ UNCHANGED <<live, ptr_, refcount_, heap, destroyed, op>>

\* ReleaseRef: refcount_.fetch_sub(1, acq_rel); the value it returns is not used.
ReleaseRef_FetchSub(h) ==
    /\ pc[h] = "rel_sub"
    /\ Touch(ptr_[h])
    /\ refcount_' = [refcount_ EXCEPT ![ptr_[h]] = FetchSub(@)]
    /\ pc' = [pc EXCEPT ![h] = "rel_check"]
    /\ UNCHANGED <<live, ptr_, heap, destroyed, op>>

\* ReleaseRef: if (ptr_ && refcount_.load(relaxed) == 0): a second, separate load.
ReleaseRef_Check(h) ==
    /\ pc[h] = "rel_check"
    /\ Touch(ptr_[h])
    /\ \E seen \in Load(ptr_[h]) :
        pc' = [pc EXCEPT ![h] = IF seen = 0 THEN "rel_delete" ELSE "released"]
    /\ UNCHANGED <<live, ptr_, refcount_, heap, destroyed, op>>

\* ReleaseRef: delete ptr_
ReleaseRef_Delete(h) ==
    /\ pc[h] = "rel_delete"
    /\ Touch(ptr_[h])
    /\ heap' = [heap EXCEPT ![ptr_[h]] = "freed"]
    /\ destroyed' = [destroyed EXCEPT ![ptr_[h]] = IF @ < 2 THEN @ + 1 ELSE @]
    /\ pc' = [pc EXCEPT ![h] = "released"]
    /\ UNCHANGED <<live, ptr_, refcount_, op>>

\* ReleaseRef has returned: the calling operation goes on.
ReleaseRef_Return(h) ==
    /\ pc[h] = "released"
    /\ AfterRelease(h)
    /\ UNCHANGED <<refcount_, heap, destroyed, uaf>>

\* An operation that ends with AddRef(): `if (ptr_)` fails for an empty handle.
BeginAddRef(h, p) ==
    pc' = [pc EXCEPT ![h] = IF p = Null THEN "idle" ELSE "add_load"]

\* InvasivePtr(const InvasivePtr &other) : ptr_(other.ptr_) { AddRef(); }
CopyConstructNoAddRef(h, src) ==
    /\ ~live[h] /\ Idle(h)
    /\ src # h /\ live[src] /\ Idle(src)
    /\ live' = [live EXCEPT ![h] = TRUE]
    /\ ptr_' = [ptr_ EXCEPT ![h] = ptr_[src]]
    /\ UNCHANGED <<refcount_, heap, destroyed, pc, op, uaf>>
CopyConstruct(h, src) ==
    /\ ~live[h] /\ Idle(h)
    /\ src # h /\ live[src] /\ Idle(src)
    /\ live' = [live EXCEPT ![h] = TRUE]
    /\ ptr_' = [ptr_ EXCEPT ![h] = ptr_[src]]
    /\ BeginAddRef(h, ptr_[src])
    /\ op' = [op EXCEPT ![h] = IF ptr_[src] = Null THEN NoOp
                               ELSE [kind |-> "copy", other |-> src, old |-> Null]]
    /\ UNCHANGED <<refcount_, heap, destroyed, uaf>>

\* operator=(const InvasivePtr &other): if (this != &other) { ReleaseRef(); ...
CopyAssignNoSelfCheck(h, src) ==
    /\ live[h] /\ Idle(h)
    /\ live[src] /\ Idle(src)
    /\ BeginRelease(h, [kind |-> "assign", other |-> src, old |-> ptr_[h]])
CopyAssign(h, src) ==
    /\ live[h] /\ Idle(h)
    /\ live[src] /\ Idle(src)
    /\ IF h = src
       THEN UNCHANGED <<live, ptr_, refcount_, heap, destroyed, pc, op, uaf>>
       ELSE BeginRelease(h, [kind |-> "assign", other |-> src, old |-> ptr_[h]])

\* operator=: ptr_ = other.ptr_; followed by AddRef()
CopyAssign_SetPtr(h) ==
    /\ pc[h] = "assign"
    /\ ptr_' = [ptr_ EXCEPT ![h] = ptr_[op[h].other]]
    /\ BeginAddRef(h, ptr_[op[h].other])
    /\ op' = [op EXCEPT ![h] = IF ptr_[op[h].other] = Null THEN NoOp ELSE @]
    /\ UNCHANGED <<live, refcount_, heap, destroyed, uaf>>

\* InvasivePtr(InvasivePtr &&other) : ptr_(other.ptr_) { other.ptr_ = nullptr; }
MoveConstruct(h, src) ==
    /\ ~live[h] /\ Idle(h)
    /\ src # h /\ live[src] /\ Idle(src)
    /\ live' = [live EXCEPT ![h] = TRUE]
    /\ ptr_' = [ptr_ EXCEPT ![h] = ptr_[src], ![src] = Null]
    /\ UNCHANGED <<refcount_, heap, destroyed, pc, op, uaf>>

\* operator=(InvasivePtr &&other): if (this != &other) { this->ReleaseRef(); ...
MoveAssign(h, src) ==
    /\ live[h] /\ Idle(h)
    /\ live[src] /\ Idle(src)
    /\ IF h = src
       THEN UNCHANGED <<live, ptr_, refcount_, heap, destroyed, pc, op, uaf>>
       ELSE BeginRelease(h, [kind |-> "move", other |-> src, old |-> ptr_[h]])

\* operator=(&&): ptr_ = other.ptr_; other.ptr_ = nullptr;
MoveAssign_SetPtrKeepsSource(h) ==
    /\ pc[h] = "move_assign"
    /\ ptr_' = [ptr_ EXCEPT ![h] = ptr_[op[h].other]]
    /\ pc' = [pc EXCEPT ![h] = "idle"]
    /\ op' = [op EXCEPT ![h] = NoOp]
    /\ UNCHANGED <<live, refcount_, heap, destroyed, uaf>>
MoveAssign_SetPtr(h) ==
    /\ pc[h] = "move_assign"
    /\ ptr_' = [ptr_ EXCEPT ![h] = ptr_[op[h].other], ![op[h].other] = Null]
    /\ pc' = [pc EXCEPT ![h] = "idle"]
    /\ op' = [op EXCEPT ![h] = NoOp]
    /\ UNCHANGED <<live, refcount_, heap, destroyed, uaf>>

\* The raw pointers held outside handles, to blocks 1 .. n.
RECURSIVE RawHeld(_)
RawHeld(n) == IF n = 0 THEN 0 ELSE raw[n] + RawHeld(n - 1)

\* ReleaseRaw() &&: result = ptr_; ptr_ = nullptr; return result.  The pointer
\* returned is kept by the caller (in a void* slot).
ReleaseRaw(h) ==
    /\ live[h] /\ Idle(h)
    /\ ptr_[h] # Null => RawHeld(MaxBlocks) < MaxRaw
    /\ raw' = IF ptr_[h] = Null THEN raw ELSE [raw EXCEPT ![ptr_[h]] = @ + 1]
    /\ ptr_' = [ptr_ EXCEPT ![h] = Null]
    /\ UNCHANGED <<live, refcount_, heap, destroyed, pc, op, uaf>>

\* AdoptRaw(wrapper): InvasivePtr(wrapper), on a pointer a ReleaseRaw() returned
\* (or nullptr); the caller gives its pointer up.
AdoptRawAddsRef(h, p) ==
    /\ ~live[h] /\ Idle(h)
    /\ p # Null => raw[p] > 0
    /\ live' = [live EXCEPT ![h] = TRUE]
    /\ ptr_' = [ptr_ EXCEPT ![h] = p]
    /\ raw' = IF p = Null THEN raw ELSE [raw EXCEPT ![p] = @ - 1]
    /\ BeginAddRef(h, p)
    /\ UNCHANGED <<refcount_, heap, destroyed, op, uaf>>
AdoptRaw(h, p) ==
    /\ ~live[h] /\ Idle(h)
    /\ p # Null => raw[p] > 0
    /\ live' = [live EXCEPT ![h] = TRUE]
    /\ ptr_' = [ptr_ EXCEPT ![h] = p]
    /\ raw' = IF p = Null THEN raw ELSE [raw EXCEPT ![p] = @ - 1]
    /\ UNCHANGED <<refcount_, heap, destroyed, pc, op, uaf>>

\* AdoptRaw(wrapper) on whatever pointer the caller passes, be it one that an
\* earlier AdoptRaw() has taken already.
AdoptRawUncheckedAddsRef(h, p) ==
    /\ ~live[h] /\ Idle(h)
    /\ live' = [live EXCEPT ![h] = TRUE]
    /\ ptr_' = [ptr_ EXCEPT ![h] = p]
    /\ raw' = [raw EXCEPT ![p] = @ - 1]
    /\ BeginAddRef(h, p)
    /\ UNCHANGED <<refcount_, heap, destroyed, op, uaf>>
AdoptRawUnchecked(h, p) ==
    /\ ~live[h] /\ Idle(h)
    /\ live' = [live EXCEPT ![h] = TRUE]
    /\ ptr_' = [ptr_ EXCEPT ![h] = p]
    /\ raw' = [raw EXCEPT ![p] = @ - 1]
    /\ UNCHANGED <<refcount_, heap, destroyed, pc, op, uaf>>

\* CopyRaw(wrapper): if (!wrapper) return InvasivePtr{}; result.ptr_ = wrapper;
\* result.AddRef().  The caller keeps its pointer.
CopyRaw(h, p) ==
    /\ ~live[h] /\ Idle(h)
    /\ p # Null => raw[p] > 0
    /\ live' = [live EXCEPT ![h] = TRUE]
    /\ ptr_' = [ptr_ EXCEPT ![h] = p]
    /\ BeginAddRef(h, p)
    /\ op' = [op EXCEPT ![h] = IF p = Null THEN NoOp
                               ELSE [kind |-> "copyraw", other |-> 0, old |-> p]]
    /\ UNCHANGED <<refcount_, heap, destroyed, uaf, raw>>

\* AddRef: int old_count = refcount_.load(relaxed)
AddRef_Load(h) ==
    /\ pc[h] = "add_load"
    /\ Touch(ptr_[h])
    /\ pc' = [pc EXCEPT ![h] = "add_inc"]
    /\ UNCHANGED <<live, ptr_, refcount_, heap, destroyed, op>>

\* AddRef: refcount_.fetch_add(1, relaxed)
AddRef_FetchAdd(h) ==
    /\ pc[h] = "add_inc"
    /\ Touch(ptr_[h])
    /\ refcount_' = [refcount_ EXCEPT ![ptr_[h]] = FetchAdd(@)]
    /\ pc' = [pc EXCEPT ![h] = "idle"]
    /\ op' = [op EXCEPT ![h] = NoOp]
    /\ UNCHANGED <<live, ptr_, heap, destroyed>>

(***************************************************************************)
(* Rax: the radix tree and its word iterator                               *)
(***************************************************************************)
Bytes == {1, 2}                    \* the bytes words are made of
Targets == {1, 2}                  \* non-null target pointers (void*)

Words == UNION {[1 .. n -> Bytes] : n \in 0 .. MaxLen}

\* memcmp order with the shorter string first on a tie: a < b.
RECURSIVE LexLess(_, _)
LexLess(a, b) ==
    IF b = <<>> THEN FALSE
    ELSE IF a = <<>> THEN TRUE
    ELSE IF Head(a) # Head(b) THEN Head(a) < Head(b)
    ELSE LexLess(Tail(a), Tail(b))

LexLeq(a, b) == a = b \/ LexLess(a, b)

\* absl::string_view::starts_with
StartsWith(w, p) == Len(p) <= Len(w) /\ SubSeq(w, 1, Len(p)) = p

\* The least word of a non-empty set.
MinWord(S) == CHOOSE w \in S : \A v \in S : LexLeq(w, v)

\* raxNew(): no keys.
EmptyRax == [data |-> [w \in Words |-> Null], numele |-> 0]

\* The keys the tree stores.
Keys(r) == {w \in Words : r.data[w] # Null}

\* The mutate functions callers pass: return a given target, return nullptr
\* (delete), or return the argument (a lookup).
MutateFns ==
    {[kind |-> "set", v |-> t] : t \in Targets}
        \cup {[kind |-> "del", v |-> Null], [kind |-> "id", v |-> Null]}

Apply(fn, old) ==
    CASE fn.kind = "set" -> fn.v
      [] fn.kind = "del" -> Null
      [] OTHER -> old

\* raxMutate(rax, key, len, callback, ctx): looks the key up, calls the callback
\* once with the key's data (NULL if the key is absent), stores what it returns,
\* and removes the key if that is NULL.
raxMutate(r, w, fn) ==
    LET old == r.data[w]
        new == Apply(fn, old)
        delta == (IF new # Null THEN 1 ELSE 0) - (IF old # Null THEN 1 ELSE 0)
    IN  [rax |-> [data |-> [r.data EXCEPT ![w] = new], numele |-> r.numele + delta],
         arg |-> old, result |-> new, calls |-> 1]

\* raxInsert(rax, key, len, data, &old): stores data under the key whatever it is.
raxInsert(r, w, fn) ==
    LET old == r.data[w]
        new == Apply(fn, old)
    IN  [rax |-> [data |-> [r.data EXCEPT ![w] = new],
                  numele |-> r.numele + (IF old # Null THEN 0 ELSE 1)],
         arg |-> old, result |-> new, calls |-> 1]

\* Rax::MutateTarget(word, mutate)
MutateTargetNoCheck(r, word, fn) ==
    LET m == raxMutate(r, word, fn)
    IN  [fatal |-> FALSE, rax |-> m.rax, arg |-> m.arg, result |-> m.result,
         calls |-> m.calls]
MutateTargetInsert(r, word, fn) ==
    IF word = <<>>
    THEN [fatal |-> TRUE, rax |-> r, arg |-> Null, result |-> Null, calls |-> 0]
    ELSE LET m == raxInsert(r, word, fn)
         IN  [fatal |-> FALSE, rax |-> m.rax, arg |-> m.arg, result |-> m.result,
              calls |-> m.calls]
MutateTargetFindFirst(r, word, fn) ==
    IF word = <<>>
    THEN [fatal |-> TRUE, rax |-> r, arg |-> Null, result |-> Null, calls |-> 0]
    ELSE IF r.data[word] = Null
    THEN [fatal |-> FALSE, rax |-> r, arg |-> Null, result |-> Null, calls |-> 0]
    ELSE LET m == raxMutate(r, word, fn)
         IN  [fatal |-> FALSE, rax |-> m.rax, arg |-> m.arg, result |-> m.result,
              calls |-> m.calls]
MutateTargetDropsResult(r, word, fn) ==
    IF word = <<>>
    THEN [fatal |-> TRUE, rax |-> r, arg |-> Null, result |-> Null, calls |-> 0]
    ELSE LET m == raxMutate(r, word, fn)
         IN  [fatal |-> FALSE, rax |-> m.rax, arg |-> m.arg, result |-> Null,
              calls |-> m.calls]
MutateTargetFirstByte(r, word, fn) ==
    IF word = <<>>
    THEN [fatal |-> TRUE, rax |-> r, arg |-> Null, result |-> Null, calls |-> 0]
    ELSE LET m == raxMutate(r, SubSeq(word, 1, 1), fn)
         IN  [fatal |-> FALSE, rax |-> m.rax, arg |-> m.arg, result |-> m.result,
              calls |-> m.calls]
MutateTarget(r, word, fn) ==
    IF word = <<>>
    THEN [fatal |-> TRUE, rax |-> r, arg |-> Null, result |-> Null, calls |-> 0]
    ELSE LET m == raxMutate(r, word, fn)
         IN  [fatal |-> FALSE, rax |-> m.rax, arg |-> m.arg, result |-> m.result,
              calls |-> m.calls]

\* Rax::GetWordCount(prefix): "TODO: Implement word counting", returns 0.
GetWordCount(r, prefix) == 0

\* Rax::GetTotalWordCount(): raxSize(rax_)
GetTotalWordCountViaPrefix(r) == GetWordCount(r, <<>>)
GetTotalWordCount(r) == r.numele

\* Rax::GetLongestWord(): "TODO: Implement longest word calculation", returns 0.
GetLongestWord(r) == 0

\* ---- the nodes of the tree ----
\* Three kinds of node: a Leaf has a target and no children; a Branching node
\* has two or more children, one per next byte, and may have a target; a
\* Compressed node has a single child behind a label of one or more bytes and
\* may have a target.  The root of an empty tree is a Leaf without a target.
NoNode == [kind |-> "none", target |-> Null, bytes |-> {}, label |-> <<>>]
Leaf(t) == [kind |-> "leaf", target |-> t, bytes |-> {}, label |-> <<>>]
Branching(t, bs) == [kind |-> "branch", target |-> t, bytes |-> bs, label |-> <<>>]
Compressed(t, l) == [kind |-> "comp", target |-> t, bytes |-> {}, label |-> l]

EmptyNodes == [p \in Words |-> IF p = <<>> THEN Leaf(Null) ELSE NoNode]

\* The greatest element of a non-empty finite set of naturals.
Max(S) == CHOOSE n \in S : \A m \in S : m <= n

\* The length of the longest common prefix of two strings.
CommonPrefixLen(a, b) ==
    Max({k \in 0 .. Len(a) : k <= Len(b) /\ \A i \in 1 .. k : a[i] = b[i]})

From(w, i) == SubSeq(w, i, Len(w))

\* The node that has node q (not the root) as a child.
ParentNode(T, q) ==
    CHOOSE p \in Words :
        /\ p # q /\ StartsWith(q, p) /\ T[p].kind # "none"
        /\ \A p2 \in Words :
               (p2 # q /\ StartsWith(q, p2) /\ T[p2].kind # "none") => Len(p2) <= Len(p)

\* A new path below a Branching node: the node at q, behind the byte that leads
\* to it, for a word that has the bytes s left after q.
NewPath(T, q, s, t) ==
    IF s = <<>> THEN [T EXCEPT ![q] = Leaf(t)]
    ELSE [T EXCEPT ![q] = Compressed(Null, s), ![q \o s] = Leaf(t)]

\* Insertion of word w with target t, from the node at p (a prefix of w) down:
\* the path is created, splitting and extending Compressed and Branching nodes
\* as needed, and the target installed.
RECURSIVE InsertNodes(_, _, _, _)
InsertNodes(T, p, w, t) ==
    LET n == T[p]
        r == From(w, Len(p) + 1)
    IN  IF r = <<>> THEN [T EXCEPT ![p].target = t]
        ELSE IF n.kind = "leaf"
        THEN [T EXCEPT ![p] = Compressed(n.target, r), ![w] = Leaf(t)]
        ELSE IF n.kind = "branch"
        THEN IF r[1] \in n.bytes
             THEN InsertNodes(T, p \o <<r[1]>>, w, t)
             ELSE NewPath([T EXCEPT ![p] = Branching(n.target, n.bytes \cup {r[1]})],
                          p \o <<r[1]>>, Tail(r), t)
        ELSE LET k == CommonPrefixLen(n.label, r)
                 s == p \o SubSeq(n.label, 1, k)     \* where the label splits
                 l2 == From(n.label, k + 1)          \* the label's bytes after s
                 T1 == IF k = 0 THEN T
                       ELSE [T EXCEPT ![p] = Compressed(n.target, SubSeq(n.label, 1, k)),
                                      ![s] = Leaf(Null)]
                 st == T1[s].target
             IN  IF k = Len(n.label) THEN InsertNodes(T, s, w, t)
                 ELSE IF Len(r) = k THEN [T1 EXCEPT ![s] = Compressed(t, l2)]
                 ELSE LET T2 == [T1 EXCEPT ![s] = Branching(st, {l2[1], r[k + 1]})]
                          T3 == IF Len(l2) = 1 THEN T2
                                ELSE [T2 EXCEPT ![s \o <<l2[1]>>] =
                                                    Compressed(Null, Tail(l2))]
                      IN  NewPath(T3, s \o <<r[k + 1]>>, From(r, k + 2), t)

\* Re-compression: a Compressed node at q whose child is a Compressed node
\* without a target takes the child's label onto its own.
MergeDown(T, q) ==
    LET n == T[q]
        c == q \o n.label
    IN  IF n.kind = "comp" /\ T[c].kind = "comp" /\ T[c].target = Null
        THEN [T EXCEPT ![q] = Compressed(n.target, n.label \o T[c].label), ![c] = NoNode]
        ELSE T

\* Re-compression around the node at q: with its child, then with its parent.
Merge(T, q) ==
    LET T1 == MergeDown(T, q)
    IN  IF q = <<>> THEN T1 ELSE MergeDown(T1, ParentNode(T1, q))

\* The node at q has neither target nor children: it is destroyed, and its
\* parent loses a child.  A Branching parent left with a single child becomes a
\* Compressed node and is merged with its neighbours.
RECURSIVE RemoveNodeNoMerge(_, _)
RemoveNodeNoMerge(T, q) ==
    IF q = <<>> THEN [T EXCEPT ![q] = Leaf(Null)]
    ELSE LET p == ParentNode(T, q)
             n == T[p]
             T1 == [T EXCEPT ![q] = NoNode]
         IN  IF n.kind = "comp"
             THEN IF n.target = Null THEN RemoveNodeNoMerge(T1, p)
                  ELSE [T1 EXCEPT ![p] = Leaf(n.target)]
             ELSE [T1 EXCEPT ![p] = Branching(n.target, n.bytes \ {q[Len(p) + 1]})]
RECURSIVE RemoveNode(_, _)
RemoveNode(T, q) ==
    IF q = <<>> THEN [T EXCEPT ![q] = Leaf(Null)]
    ELSE LET p == ParentNode(T, q)
             n == T[p]
             T1 == [T EXCEPT ![q] = NoNode]
             bs == n.bytes \ {q[Len(p) + 1]}
         IN  IF n.kind = "comp"
             THEN IF n.target = Null THEN RemoveNode(T1, p)
                  ELSE [T1 EXCEPT ![p] = Leaf(n.target)]
             ELSE IF Cardinality(bs) >= 2
             THEN [T1 EXCEPT ![p] = Branching(n.target, bs)]
             ELSE Merge([T1 EXCEPT ![p] = Compressed(n.target, <<CHOOSE b \in bs : TRUE>>)],
                        p)

\* Deletion of word w: its node is unmarked, destroyed if it was a Leaf, and
\* the tree re-compressed.
DeleteNodesKeepsLeaf(T, w) ==
    IF T[w].kind = "none" \/ T[w].target = Null THEN T
    ELSE IF T[w].kind = "comp" THEN Merge([T EXCEPT ![w].target = Null], w)
    ELSE [T EXCEPT ![w].target = Null]
DeleteNodes(T, w) ==
    IF T[w].kind = "none" \/ T[w].target = Null THEN T
    ELSE IF T[w].kind = "leaf" THEN RemoveNode(T, w)
    ELSE IF T[w].kind = "comp" THEN Merge([T EXCEPT ![w].target = Null], w)
    ELSE [T EXCEPT ![w].target = Null]

\* What a mutation of word w that installs target t (Null: none) does to the nodes.
MutateNodes(T, w, t) ==
    IF t = Null THEN DeleteNodes(T, w) ELSE InsertNodes(T, <<>>, w, t)

\* ---- raxIterator ----
\* raxStart(&iter_, rax)
raxStart == [key |-> <<>>, data |-> Null, eof |-> FALSE, just_seeked |-> FALSE]

\* raxEOF(&iter_)
raxEOF(it) == it.eof

\* raxSeek(&iter_, ">=", word): the iterator stands on the least key >= word, or
\* at EOF if there is none; the next raxNext() stays on that key.
raxSeek(r, it, w) ==
    LET ge == {k \in Keys(r) : LexLeq(w, k)}
    IN  IF ge = {}
        THEN [it |-> [key |-> <<>>, data |-> Null, eof |-> TRUE, just_seeked |-> TRUE],
              ret |-> TRUE]
        ELSE [it |-> [key |-> MinWord(ge), data |-> r.data[MinWord(ge)],
                      eof |-> FALSE, just_seeked |-> TRUE],
              ret |-> TRUE]

\* raxNext(&iter_): the first call after a seek returns the key sought; later
\* calls step to the next greater key; returns 0 at EOF.
raxNext(r, it) ==
    LET gt == {k \in Keys(r) : LexLess(it.key, k)}
    IN  IF it.eof THEN [it |-> it, ret |-> FALSE]
        ELSE IF it.just_seeked
        THEN [it |-> [it EXCEPT !.just_seeked = FALSE], ret |-> TRUE]
        ELSE IF gt = {}
        THEN [it |-> [it EXCEPT !.eof = TRUE], ret |-> FALSE]
        ELSE [it |-> [it EXCEPT !.key = MinWord(gt), !.data = r.data[MinWord(gt)]],
              ret |-> TRUE]

\* ---- Rax::WordIterator ----
\* A WordIterator: [open, iter_, prefix_, valid_].
NoIter == [open |-> FALSE, iter_ |-> raxStart, prefix_ |-> <<>>, valid_ |-> FALSE]

\* WordIterator::WordIterator(rax, prefix)
WordIterator(r, prefix) ==
    LET sk == raxSeek(r, raxStart, prefix)
        inRange == sk.ret /\ ~raxEOF(sk.it) /\ StartsWith(sk.it.key, prefix)
    IN  [open |-> TRUE, iter_ |-> sk.it, prefix_ |-> prefix, valid_ |-> inRange]

\* WordIterator::Done()
WordIterator_Done(it) == ~it.valid_ \/ raxEOF(it.iter_)

\* WordIterator::Next()
WordIterator_Next(r, it) ==
    IF WordIterator_Done(it) THEN it
    ELSE LET nx == raxNext(r, it.iter_)
         IN  IF ~nx.ret THEN [it EXCEPT !.iter_ = nx.it, !.valid_ = FALSE]
             ELSE IF ~raxEOF(nx.it) /\ StartsWith(nx.it.key, it.prefix_)
             THEN [it EXCEPT !.iter_ = nx.it]
             ELSE [it EXCEPT !.iter_ = nx.it, !.valid_ = FALSE]

\* WordIterator::SeekForward(word): [it, ret]
WordIterator_SeekForwardNoRangeCheck(r, it, word) ==
    IF WordIterator_Done(it) THEN [it |-> it, ret |-> FALSE]
    ELSE IF ~StartsWith(word, it.prefix_)
    THEN [it |-> [it EXCEPT !.valid_ = FALSE], ret |-> FALSE]
    ELSE LET sk == raxSeek(r, it.iter_, word)
         IN  IF ~sk.ret \/ raxEOF(sk.it)
             THEN [it |-> [it EXCEPT !.iter_ = sk.it, !.valid_ = FALSE], ret |-> FALSE]
             ELSE [it |-> [it EXCEPT !.iter_ = sk.it], ret |-> sk.it.key = word]
WordIterator_SeekForwardNoDoneCheck(r, it, word) ==
    IF ~StartsWith(word, it.prefix_)
    THEN [it |-> [it EXCEPT !.valid_ = FALSE], ret |-> FALSE]
    ELSE LET sk == raxSeek(r, it.iter_, word)
         IN  IF ~sk.ret \/ raxEOF(sk.it) \/ ~StartsWith(sk.it.key, it.prefix_)
             THEN [it |-> [it EXCEPT !.iter_ = sk.it, !.valid_ = FALSE], ret |-> FALSE]
             ELSE [it |-> [it EXCEPT !.iter_ = sk.it], ret |-> sk.it.key = word]
WordIterator_SeekForward(r, it, word) ==
    IF WordIterator_Done(it) THEN [it |-> it, ret |-> FALSE]
    ELSE IF ~StartsWith(word, it.prefix_)
    THEN [it |-> [it EXCEPT !.valid_ = FALSE], ret |-> FALSE]
    ELSE LET sk == raxSeek(r, it.iter_, word)
         IN  IF ~sk.ret \/ raxEOF(sk.it) \/ ~StartsWith(sk.it.key, it.prefix_)
             THEN [it |-> [it EXCEPT !.iter_ = sk.it, !.valid_ = FALSE], ret |-> FALSE]
             ELSE [it |-> [it EXCEPT !.iter_ = sk.it], ret |-> sk.it.key = word]

\* WordIterator::GetWord() / GetTarget(), past their CHECK(!Done())
WordIterator_GetWord(it) == it.iter_.key
WordIterator_GetTarget(it) == it.iter_.data

\* ---- Rax::PathIterator ----
\* The bytes that continue path p towards a stored word.
NextBytes(r, p) == {b \in Bytes : \E k \in Keys(r) : StartsWith(k, p \o <<b>>)}

\* Rax::GetPathIterator(prefix): an iterator over the next bytes after prefix,
\* on the least of them (cur = Null: none, the iterator is Done).
GetPathIterator(r, prefix) ==
    [path |-> prefix,
     cur |-> IF NextBytes(r, prefix) = {} THEN Null
             ELSE CHOOSE b \in NextBytes(r, prefix) : \A c \in NextBytes(r, prefix) : b <= c]

\* What a call returns: a value, the fatal CHECK failure, or an exception.
Returns(v) == [threw |-> FALSE, fatal |-> FALSE, ret |-> v]
LogicError == [threw |-> TRUE, fatal |-> FALSE, ret |-> Null]

\* The methods of PathIterator: each is `throw std::logic_error("TODO")`.
PathIterator_Done(pit) == LogicError
PathIterator_IsWord(pit) == LogicError
PathIterator_Next(pit) == LogicError
PathIterator_SeekForward(pit, target) == LogicError
PathIterator_CanDescend(pit) == LogicError
PathIterator_DescendNew(pit) == LogicError
PathIterator_GetPath(pit) == LogicError
PathIterator_GetTarget(pit) == LogicError

\* The caller's loop
\*     it = GetWordIterator(prefix);
\*     while (!it.Done()) { it.GetWord(); it.Next(); }
\* and the words it reads, in the order it reads them.
RECURSIVE IterLoop(_, _, _)
IterLoop(r, it, acc) ==
    IF WordIterator_Done(it) THEN acc
    ELSE IterLoop(r, WordIterator_Next(r, it), Append(acc, WordIterator_GetWord(it)))

IterateWords(r, prefix) == IterLoop(r, WordIterator(r, prefix), <<>>)

\* ---- operations of the trie specification ----
NoLast ==
    [op |-> "none", kind |-> "none", arg |-> Null, result |-> Null, calls |-> 0,
     done |-> FALSE]

\* A write window: one MutateTarget call, no iterator alive.
DoMutateTarget(word, fn) ==
    /\ ~fatal /\ ~iter.open /\ ~other.open
    /\ LET m == MutateTarget(rax, word, fn)
       IN  /\ m.rax.numele <= MaxWords
           /\ rax' = m.rax
           /\ fatal' = m.fatal
           /\ installed' = IF m.fatal THEN installed
                           ELSE [installed EXCEPT ![word] = m.result]
           /\ last' = [op |-> "MutateTarget", kind |-> fn.kind, arg |-> m.arg,
                       result |-> m.result, calls |-> m.calls, done |-> FALSE]
           /\ nodes' = IF m.fatal \/ m.calls = 0 THEN nodes
                       ELSE MutateNodes(nodes, word, m.result)
    /\ UNCHANGED <<iter, yielded, pure, other, lex, alloc>>

\* A read window: GetWordIterator(prefix)
DoGetWordIteratorInserts(prefix) ==
    /\ ~fatal /\ ~iter.open
    /\ iter' = WordIterator(rax, prefix)
    /\ yielded' = <<>>
    /\ pure' = TRUE
    /\ last' = [NoLast EXCEPT !.op = "GetWordIterator"]
    /\ rax' = raxInsert(rax, prefix, [kind |-> "set", v |-> 1]).rax
    /\ UNCHANGED <<fatal, installed, nodes, other, lex, alloc>>
DoGetWordIterator(prefix) ==
    /\ ~fatal /\ ~iter.open
    /\ iter' = WordIterator(rax, prefix)
    /\ yielded' = <<>>
    /\ pure' = TRUE
    /\ last' = [NoLast EXCEPT !.op = "GetWordIterator"]
    /\ UNCHANGED <<rax, fatal, installed, nodes, other, lex, alloc>>

\* One turn of the caller's loop: GetWord(), then Next().
DoLoopStep ==
    /\ ~fatal /\ iter.open /\ ~WordIterator_Done(iter)
    /\ yielded' = IF pure THEN Append(yielded, WordIterator_GetWord(iter)) ELSE yielded
    /\ iter' = WordIterator_Next(rax, iter)
    /\ last' = [NoLast EXCEPT !.op = "Next"]
    /\ UNCHANGED <<rax, pure, fatal, installed, nodes, other, lex, alloc>>

\* SeekForward(word)
DoSeekForward(word) ==
    /\ ~fatal /\ iter.open
    /\ LET sk == WordIterator_SeekForward(rax, iter, word)
       IN  /\ iter' = sk.it
           /\ last' = [NoLast EXCEPT !.op = "SeekForward",
                                     !.result = IF sk.ret THEN 1 ELSE 0,
                                     !.done = WordIterator_Done(iter)]
    /\ yielded' = <<>>
    /\ pure' = FALSE
    /\ UNCHANGED <<rax, fatal, installed, nodes, other, lex, alloc>>

\* Next(), called outside the loop, whatever Done() says.
DoNext ==
    /\ ~fatal /\ iter.open
    /\ iter' = WordIterator_Next(rax, iter)
    /\ last' = [NoLast EXCEPT !.op = "Next", !.done = WordIterator_Done(iter)]
    /\ yielded' = <<>>
    /\ pure' = FALSE
    /\ UNCHANGED <<rax, fatal, installed, nodes, other, lex, alloc>>

\* GetWord(), called whatever Done() says: CHECK(!Done()) aborts the process.
DoGetWord ==
    /\ ~fatal /\ iter.open
    /\ fatal' = WordIterator_Done(iter)
    /\ yielded' = IF WordIterator_Done(iter) THEN <<>>
                  ELSE <<WordIterator_GetWord(iter)>>
    /\ pure' = FALSE
    /\ last' = [NoLast EXCEPT !.op = "GetWord", !.done = WordIterator_Done(iter)]
    /\ UNCHANGED <<rax, iter, installed, nodes, other, lex, alloc>>

\* GetTarget(), called whatever Done() says: CHECK(!Done()) aborts the process.
DoGetTargetNoCheck ==
    /\ ~fatal /\ iter.open
    /\ fatal' = FALSE
    /\ last' = [NoLast EXCEPT !.op = "GetTarget",
                              !.result = WordIterator_GetTarget(iter),
                              !.done = WordIterator_Done(iter)]
    /\ yielded' = <<>>
    /\ pure' = FALSE
    /\ UNCHANGED <<rax, iter, installed, nodes, other, lex, alloc>>
DoGetTarget ==
    /\ ~fatal /\ iter.open
    /\ fatal' = WordIterator_Done(iter)
    /\ last' = [NoLast EXCEPT !.op = "GetTarget",
                              !.result = IF WordIterator_Done(iter) THEN Null
                                         ELSE WordIterator_GetTarget(iter),
                              !.done = WordIterator_Done(iter)]
    /\ yielded' = <<>>
    /\ pure' = FALSE
    /\ UNCHANGED <<rax, iter, installed, nodes, other, lex, alloc>>

\* ~WordIterator(): the read window ends.
DoIterStop ==
    /\ ~fatal /\ iter.open
    /\ iter' = NoIter
    /\ yielded' = <<>>
    /\ pure' = TRUE
    /\ last' = [NoLast EXCEPT !.op = "~WordIterator"]
    /\ UNCHANGED <<rax, fatal, installed, nodes, other, lex, alloc>>

\* The count queries: GetTotalWordCount(), GetWordCount(prefix), GetLongestWord().
DoCount ==
    /\ ~fatal
    /\ last' = [NoLast EXCEPT !.op = "Count",
                              !.result = GetTotalWordCount(rax),
                              !.arg = GetWordCount(rax, <<>>),
                              !.calls = GetLongestWord(rax)]
    /\ UNCHANGED <<rax, iter, yielded, pure, fatal, installed, nodes, other, lex, alloc>>

\* The operations of a second thread of the read window, on its own iterator:
\* GetWordIterator(prefix), Next() and the iterator's destructor.
OtherFrame == UNCHANGED <<rax, iter, yielded, pure, fatal, installed, last, nodes, lex, alloc>>

OtherGetWordIterator(prefix) ==
    /\ ~fatal /\ ~other.open
    /\ other' = WordIterator(rax, prefix)
    /\ OtherFrame

OtherNext ==
    /\ ~fatal /\ other.open
    /\ other' = WordIterator_Next(rax, other)
    /\ OtherFrame

OtherStop ==
    /\ ~fatal /\ other.open
    /\ other' = NoIter
    /\ OtherFrame

(***************************************************************************)
(* Lexer                                                                   *)
(***************************************************************************)
\* A text is a sequence of byte values.  The texts of the model are made of a
\* separator of each kind, letters of both cases, and the two bytes of a
\* two-byte UTF-8 character: ' ' ',' 'A' 'a' 'b' 0xC3 0xA9.
TextBytes == {32, 44, 65, 97, 98, 195, 169}

Texts == UNION {[1 .. n -> TextBytes] : n \in 0 .. MaxText}

\* The punctuation strings and the stop word lists a Lexer is constructed with.
Punctuations == {<<44>>, <<44, 97>>}

StopWordLists == {{}, {<<65>>}}

NoLex == [op |-> "none", text |-> <<>>, punctuation |-> <<>>, stop_words |-> {},
          status |-> "none", has_value |-> FALSE, tokens |-> <<>>]

\* std::isspace(c) || std::iscntrl(c), in the "C" locale
IsWhitespace(c) == c \in 9 .. 13 \/ c = 32 \/ c \in 0 .. 31 \/ c = 127

\* The bitmap as the set of the bytes whose bit is set.
BuildPunctuationBitmap(punctuation) ==
    {c \in 0 .. 255 : IsWhitespace(c)} \cup {punctuation[i] : i \in 1 .. Len(punctuation)}

IsPunctuation(punct_bitmap_, c) == c \in punct_bitmap_

AsciiToLower(c) == IF c \in 65 .. 90 THEN c + 32 ELSE c

AsciiStrToLower(s) == [i \in 1 .. Len(s) |-> AsciiToLower(s[i])]

BuildStopWordsSetNoLower(stop_words) == stop_words

BuildStopWordsSet(stop_words) == {AsciiStrToLower(word) : word \in stop_words}

IsStopWord(stop_words_set_, lowercase_word) == lowercase_word \in stop_words_set_

\* The scanner: the length of the UTF-8 sequence a lead byte announces (0: the
\* byte cannot start a character), and the decoding of one character at pos.
Utf8Len(b) ==
    IF b < 128 THEN 1
    ELSE IF b \in 194 .. 223 THEN 2
    ELSE IF b \in 224 .. 239 THEN 3
    ELSE IF b \in 240 .. 244 THEN 4
    ELSE 0

IsContinuation(b) == b \in 128 .. 191

NextUtf8(text, pos) ==
    LET n == Utf8Len(text[pos])
        ok == /\ n > 0
              /\ pos + n - 1 <= Len(text)
              /\ \A i \in pos + 1 .. pos + n - 1 : IsContinuation(text[i])
    IN  [invalid |-> ~ok, next |-> IF ok THEN pos + n ELSE pos + 1]

RECURSIVE GetInvalidUtf8Count(_, _)
GetInvalidUtf8Count(text, pos) ==
    IF pos > Len(text) THEN 0
    ELSE LET c == NextUtf8(text, pos)
         IN  (IF c.invalid THEN 1 ELSE 0) + GetInvalidUtf8Count(text, c.next)

IsValidUtf8(text) == GetInvalidUtf8Count(text, 1) = 0

\* stemming_enabled = false: the word is returned as it is
StemWord(word) == word

SkipPunctuation(text, punct_bitmap_, pos) ==
    LET rest == {i \in pos .. Len(text) : ~IsPunctuation(punct_bitmap_, text[i])}
    IN  IF rest = {} THEN Len(text) + 1 ELSE CHOOSE i \in rest : \A j \in rest : i <= j

SkipWord(text, punct_bitmap_, pos) ==
    LET rest == {i \in pos .. Len(text) : IsPunctuation(punct_bitmap_, text[i])}
    IN  IF rest = {} THEN Len(text) + 1 ELSE CHOOSE i \in rest : \A j \in rest : i <= j

RECURSIVE TokenizeLoop(_, _, _, _, _)
TokenizeLoop(text, punct_bitmap_, stop_words_set_, pos, tokens) ==
    IF pos > Len(text) THEN tokens
    ELSE LET word_start == SkipPunctuation(text, punct_bitmap_, pos)
             word_end == SkipWord(text, punct_bitmap_, word_start)
             word == AsciiStrToLower(SubSeq(text, word_start, word_end - 1))
         IN  IF word_end > word_start /\ ~IsStopWord(stop_words_set_, word)
             THEN TokenizeLoop(text, punct_bitmap_, stop_words_set_, word_end,
                               Append(tokens, StemWord(word)))
             ELSE TokenizeLoop(text, punct_bitmap_, stop_words_set_, word_end, tokens)

TokenizeNoUtf8Check(text, punct_bitmap_, stop_words_set_) ==
    [status |-> "ok", has_value |-> TRUE,
     tokens |-> TokenizeLoop(text, punct_bitmap_, stop_words_set_, 1, <<>>)]

\* Tokenize(text, stemming_enabled = false, min_stem_size): the status and, when
\* it is ok, the tokens (an error carries no value: has_value is FALSE)
Tokenize(text, punct_bitmap_, stop_words_set_) ==
    IF ~IsValidUtf8(text)
    THEN [status |-> "InvalidArgument", has_value |-> FALSE, tokens |-> <<>>]
    ELSE [status |-> "ok", has_value |-> TRUE,
          tokens |-> TokenizeLoop(text, punct_bitmap_, stop_words_set_, 1, <<>>)]

\* sb_stemmer_stem(stemmer, word): the stemmer of the model strips one
\* trailing 'b' from a word of two bytes or more.
SnowballStem(word) ==
    IF Len(word) >= 2 /\ word[Len(word)] = 98 THEN SubSeq(word, 1, Len(word) - 1)
    ELSE word

\* Lexer::StemWord(word, stemming_enabled, min_stem_size, stemmer)
StemWordWith(word, stemming_enabled, min_stem_size) ==
    IF word = <<>> \/ ~stemming_enabled \/ Len(word) < min_stem_size THEN word
    ELSE SnowballStem(word)

\* The values of min_stem_size the callers of the model pass.
MinStemSizes == {1, 3}

\* Tokenize step by step.  Entry: the text is checked, the stemmer fetched,
\* tokens is empty and pos is at the first byte (positions count from 1; `words`
\* keeps, for each token, the lower-cased word it was made from).
ScanBegin(text, punctuation, stop_words, stemming_enabled, min_stem_size) ==
    /\ ~fatal
    /\ lex.op = "none"
    /\ lex' = [op |-> IF IsValidUtf8(text) THEN "scan" ELSE "returned",
               text |-> text, punctuation |-> punctuation, stop_words |-> stop_words,
               stemming_enabled |-> stemming_enabled, min_stem_size |-> min_stem_size,
               status |-> IF IsValidUtf8(text) THEN "running" ELSE "InvalidArgument",
               pos |-> 1, iterations |-> 0, words |-> <<>>, tokens |-> <<>>]
    /\ UNCHANGED <<rax, iter, yielded, pure, fatal, installed, last, nodes, other, alloc>>

\* One iteration of `while (pos < text.size())`: punctuation is skipped, a word
\* scanned and lower-cased, dropped if it is a stop word, stemmed and pushed.
ScanStepStaysOnStopWord ==
    /\ lex.op = "scan" /\ lex.pos <= Len(lex.text)
    /\ lex.iterations <= Len(lex.text)
    /\ LET punct_bitmap_ == BuildPunctuationBitmap(lex.punctuation)
           stop_words_set_ == BuildStopWordsSet(lex.stop_words)
           word_start == SkipPunctuation(lex.text, punct_bitmap_, lex.pos)
           word_end == SkipWord(lex.text, punct_bitmap_, word_start)
           word == AsciiStrToLower(SubSeq(lex.text, word_start, word_end - 1))
           emit == word_end > word_start /\ ~IsStopWord(stop_words_set_, word)
       IN  lex' = [lex EXCEPT
                     !.pos = IF word_end > word_start /\ ~emit THEN lex.pos ELSE word_end,
                     !.iterations = @ + 1,
                     !.words = IF emit THEN Append(@, word) ELSE @,
                     !.tokens = IF emit
                                THEN Append(@, StemWordWith(word, lex.stemming_enabled,
                                                            lex.min_stem_size))
                                ELSE @]
    /\ UNCHANGED <<rax, iter, yielded, pure, fatal, installed, last, nodes, other, alloc>>
ScanStepStopsAfterStemming ==
    /\ lex.op = "scan" /\ lex.pos <= Len(lex.text)
    /\ lex.iterations <= Len(lex.text)
    /\ LET punct_bitmap_ == BuildPunctuationBitmap(lex.punctuation)
           stop_words_set_ == BuildStopWordsSet(lex.stop_words)
           word_start == SkipPunctuation(lex.text, punct_bitmap_, lex.pos)
           word_end == SkipWord(lex.text, punct_bitmap_, word_start)
           word == AsciiStrToLower(SubSeq(lex.text, word_start, word_end - 1))
           stem == StemWordWith(word, lex.stemming_enabled, lex.min_stem_size)
           emit == word_end > word_start /\ ~IsStopWord(stop_words_set_, stem)
       IN  lex' = [lex EXCEPT
                     !.pos = word_end,
                     !.iterations = @ + 1,
                     !.words = IF emit THEN Append(@, word) ELSE @,
                     !.tokens = IF emit THEN Append(@, stem) ELSE @]
    /\ UNCHANGED <<rax, iter, yielded, pure, fatal, installed, last, nodes, other, alloc>>
ScanStep ==
    /\ lex.op = "scan" /\ lex.pos <= Len(lex.text)
    /\ lex.iterations <= Len(lex.text)
    /\ LET punct_bitmap_ == BuildPunctuationBitmap(lex.punctuation)
           stop_words_set_ == BuildStopWordsSet(lex.stop_words)
           word_start == SkipPunctuation(lex.text, punct_bitmap_, lex.pos)
           word_end == SkipWord(lex.text, punct_bitmap_, word_start)
           word == AsciiStrToLower(SubSeq(lex.text, word_start, word_end - 1))
           emit == word_end > word_start /\ ~IsStopWord(stop_words_set_, word)
       IN  lex' = [lex EXCEPT
                     !.pos = word_end,
                     !.iterations = @ + 1,
                     !.words = IF emit THEN Append(@, word) ELSE @,
                     !.tokens = IF emit
                                THEN Append(@, StemWordWith(word, lex.stemming_enabled,
                                                            lex.min_stem_size))
                                ELSE @]
    /\ UNCHANGED <<rax, iter, yielded, pure, fatal, installed, last, nodes, other, alloc>>

\* The loop condition fails: return tokens.
ScanReturn ==
    /\ lex.op = "scan" /\ lex.pos > Len(lex.text)
    /\ lex' = [lex EXCEPT !.op = "returned", !.status = "ok"]
    /\ UNCHANGED <<rax, iter, yielded, pure, fatal, installed, last, nodes, other, alloc>>

\* A Lexer is constructed with a punctuation string and stop words, and
\* tokenizes one text.  Tokenize is const and keeps nothing from one call to
\* the next, so one call is followed from the construction.
DoTokenize(text, punctuation, stop_words) ==
    /\ ~fatal
    /\ lex.op = "none"
    /\ LET t == Tokenize(text, BuildPunctuationBitmap(punctuation),
                         BuildStopWordsSet(stop_words))
       IN  lex' = [op |-> "Tokenize", text |-> text, punctuation |-> punctuation,
                   stop_words |-> stop_words, status |-> t.status,
                   has_value |-> t.has_value, tokens |-> t.tokens]
    /\ UNCHANGED <<rax, iter, yielded, pure, fatal, installed, last, nodes, other, alloc>>

(***************************************************************************)
(* The size-tracking allocator of rax (rax_malloc.h).  Every block is      *)
(* allocated sizeof(size_t) bytes larger than asked for and starts with a  *)
(* size_t header holding the requested size; the caller's pointer is the   *)
(* address after the header.  size_t is modelled sizeof(size_t) = 2 bytes  *)
(* wide, so that the unsigned sum sizeof(size_t) + size wraps at 2^16 the  *)
(* way it wraps at 2^64 on a 64-bit build.                                 *)
(***************************************************************************)
AllocAddrs == 1 .. MaxAlloc       \* the payload addresses malloc can hand out

SizeofSizeT == 2                  \* sizeof(size_t)

SizeTModulus == 2 ^ (8 * SizeofSizeT)    \* size_t arithmetic is modulo this

\* The sizes a caller passes: an empty payload, a small one, and the size
\* whose sum with the header wraps to 0.
AllocSizes == {0, 1, SizeTModulus - SizeofSizeT}

NoBlock == [live |-> FALSE, usable |-> 0, header |-> 0, asked |-> 0]

NoCall == [fn |-> "none", ptr |-> Null, size |-> 0, result |-> Null]

NoAlloc == [mem |-> [a \in AllocAddrs |-> NoBlock], call |-> NoCall]

FreeAddrs(mem) == {a \in AllocAddrs : ~mem[a].live}

LiveAddrs(mem) == {a \in AllocAddrs : mem[a].live}

\* sizeof(size_t) + size, computed in size_t.
WithHeader(size) == (SizeofSizeT + size) % SizeTModulus

\* `*ptr = size` on a block of `usable` bytes: what the header reads back.
\* A block shorter than the header makes the store a write outside the
\* allocation, which is undefined: the header can then read back as anything.
StoreHeader(usable, size) ==
    IF usable >= SizeofSizeT THEN {size} ELSE AllocSizes

\* The block rax_malloc / rax_realloc leave behind a returned pointer; asked
\* is the size the caller passed in that call.
NewBlock(usable, header, size) ==
    [live |-> TRUE, usable |-> usable, header |-> header, asked |-> size]

\* rax_malloc_impl: the outcomes [mem, result] of one call.  malloc can fail
\* (NULL, nothing changes) or return any unused address.
rax_malloc_impl(mem, size) ==
    {[mem |-> mem, result |-> Null]}
    \cup {[mem |-> [mem EXCEPT ![a] = NewBlock(WithHeader(size), h, size)],
           result |-> a] :
              a \in FreeAddrs(mem), h \in StoreHeader(WithHeader(size), size)}

\* rax_realloc_impl: a null ptr is rax_malloc_impl; otherwise realloc can fail
\* (NULL, the block stays), resize the block in place or move it to an unused
\* address and free the old one.  realloc to 0 bytes may also free the block
\* and return NULL.
rax_realloc_impl(mem, ptr, size) ==
    IF ptr = Null THEN rax_malloc_impl(mem, size)
    ELSE {[mem |-> mem, result |-> Null]}
         \cup (IF WithHeader(size) = 0
               THEN {[mem |-> [mem EXCEPT ![ptr] = NoBlock], result |-> Null]}
               ELSE {})
         \cup {[mem |-> [[mem EXCEPT ![ptr] = NoBlock]
                              EXCEPT ![a] = NewBlock(WithHeader(size), h, size)],
                result |-> a] :
                   a \in FreeAddrs(mem) \cup {ptr},
                   h \in StoreHeader(WithHeader(size), size)}

\* rax_free_impl: nothing for NULL, else free(real_ptr).
rax_free_impl(mem, ptr) ==
    IF ptr = Null THEN mem ELSE [mem EXCEPT ![ptr] = NoBlock]

\* rax_ptr_alloc_size_impl: 0 for NULL, else the header in front of ptr.
rax_ptr_alloc_size_impl(mem, ptr) ==
    IF ptr = Null THEN 0 ELSE mem[ptr].header

AllocFrame ==
    UNCHANGED <<rax, iter, yielded, pure, fatal, installed, last, nodes, other, lex>>

rax_malloc(size) ==
    /\ \E o \in rax_malloc_impl(alloc.mem, size) :
         alloc' = [mem |-> o.mem,
                   call |-> [fn |-> "rax_malloc", ptr |-> Null, size |-> size,
                             result |-> o.result]]
    /\ AllocFrame

\* ptr is NULL or a pointer a previous call returned and that is not freed.
rax_realloc(ptr, size) ==
    /\ ptr \in {Null} \cup LiveAddrs(alloc.mem)
    /\ \E o \in rax_realloc_impl(alloc.mem, ptr, size) :
         alloc' = [mem |-> o.mem,
                   call |-> [fn |-> "rax_realloc", ptr |-> ptr, size |-> size,
                             result |-> o.result]]
    /\ AllocFrame

rax_free(ptr) ==
    /\ ptr \in {Null} \cup LiveAddrs(alloc.mem)
    /\ alloc' = [mem |-> rax_free_impl(alloc.mem, ptr),
                 call |-> [fn |-> "rax_free", ptr |-> ptr, size |-> 0,
                           result |-> Null]]
    /\ AllocFrame

rax_ptr_alloc_size(ptr) ==
    /\ ptr \in {Null} \cup LiveAddrs(alloc.mem)
    /\ alloc' = [alloc EXCEPT !.call =
                     [fn |-> "rax_ptr_alloc_size", ptr |-> ptr, size |-> 0,
                      result |-> rax_ptr_alloc_size_impl(alloc.mem, ptr)]]
    /\ AllocFrame

(***************************************************************************)
(* The initial state.                                                      *)
(***************************************************************************)
HInit ==
    /\ live = [h \in Handles |-> FALSE]
    /\ ptr_ = [h \in Handles |-> Null]
    /\ refcount_ = [b \in Blocks |-> 0]
    /\ heap = [b \in Blocks |-> "unused"]
    /\ destroyed = [b \in Blocks |-> 0]
    /\ pc = [h \in Handles |-> "idle"]
    /\ op = [h \in Handles |-> NoOp]
    /\ uaf = FALSE
    /\ phase = "copy"
    /\ raw = [b \in Blocks |-> 0]
    /\ adopted = [b \in Blocks |-> 0]

TInit ==
    /\ rax = EmptyRax
    /\ nodes = EmptyNodes
    /\ other = NoIter
    /\ iter = NoIter
    /\ yielded = <<>>
    /\ pure = TRUE
    /\ fatal = FALSE
    /\ installed = [w \in Words |-> Null]
    /\ last = NoLast
    /\ lex = NoLex
    /\ alloc = NoAlloc

Init == HInit /\ TInit

(***************************************************************************)
(* Spec: the trie under the window discipline of its callers: MutateTarget *)
(* calls alternate with read windows in which a word iterator is walked    *)
(* with the Done()/GetWord()/Next() loop.                                  *)
(***************************************************************************)
Next ==
    \/ \E word \in Words, fn \in MutateFns : DoMutateTarget(word, fn) /\ UNCHANGED hvars
    \/ \E prefix \in Words : DoGetWordIterator(prefix) /\ UNCHANGED hvars
    \/ DoLoopStep /\ UNCHANGED hvars
    \/ DoIterStop /\ UNCHANGED hvars

Spec == Init /\ [][Next]_vars

(***************************************************************************)
(* SpecSeek: the iterator's Next() and SeekForward() called freely in the  *)
(* read windows, on trees built by inserting words with one target value   *)
(* and deleting them (the cursor's moves depend on the stored words only).  *)
(***************************************************************************)
InsertDelete ==
    {fn \in MutateFns : fn.kind = "del"
                        \/ (fn.kind = "set" /\ \A t \in Targets : fn.v <= t)}

NextSeek ==
    \/ \E word \in Words, fn \in InsertDelete : DoMutateTarget(word, fn) /\ UNCHANGED hvars
    \/ \E prefix \in Words : DoGetWordIterator(prefix) /\ UNCHANGED hvars
    \/ DoNext /\ UNCHANGED hvars
    \/ \E word \in Words : DoSeekForward(word) /\ UNCHANGED hvars
    \/ DoIterStop /\ UNCHANGED hvars

SpecSeek == Init /\ [][NextSeek]_vars

(***************************************************************************)
(* SpecGet: Spec with GetWord() and GetTarget() also called outside the    *)
(* loop, on an iterator that may be Done().                                *)
(***************************************************************************)
NextGet ==
    \/ \E word \in Words, fn \in MutateFns : DoMutateTarget(word, fn) /\ UNCHANGED hvars
    \/ \E prefix \in Words : DoGetWordIterator(prefix) /\ UNCHANGED hvars
    \/ DoLoopStep /\ UNCHANGED hvars
    \/ DoGetWord /\ UNCHANGED hvars
    \/ DoGetTarget /\ UNCHANGED hvars
    \/ DoIterStop /\ UNCHANGED hvars

SpecGet == Init /\ [][NextGet]_vars

(***************************************************************************)
(* SpecRead: two threads read in the same window, each with an iterator of *)
(* its own, in any interleaving of their calls: one seeks and reads words   *)
(* and targets and asks for the counts, the other walks the whole tree     *)
(* with Next(); words are inserted and deleted between windows.            *)
(***************************************************************************)
\* The prefixes the first thread opens its iterator on.
WindowPrefixes == {w \in Words : Len(w) <= 1}

NextRead ==
    \/ \E word \in Words \ {<<>>}, fn \in InsertDelete :
           DoMutateTarget(word, fn) /\ UNCHANGED hvars
    \/ \E prefix \in WindowPrefixes : DoGetWordIterator(prefix) /\ UNCHANGED hvars
    \/ \E word \in Words : DoSeekForward(word) /\ UNCHANGED hvars
    \/ DoGetWord /\ UNCHANGED hvars
    \/ DoGetTarget /\ UNCHANGED hvars
    \/ DoIterStop /\ UNCHANGED hvars
    \/ DoCount /\ UNCHANGED hvars
    \/ OtherGetWordIterator(<<>>) /\ UNCHANGED hvars
    \/ OtherNext /\ UNCHANGED hvars
    \/ OtherStop /\ UNCHANGED hvars

SpecRead == Init /\ [][NextRead]_vars

(***************************************************************************)
(* SpecRef: a handle is made, copied N times, and then the N+1 handles are *)
(* released (destructor or Clear), each by a thread of its own; the        *)
(* threads' atomic steps interleave freely.                                *)
(***************************************************************************)
RefFrame == UNCHANGED <<phase, raw, adopted>> /\ UNCHANGED tvars

RefMake(h) == phase = "copy" /\ Make(h) /\ RefFrame

RefCopy(h, src) == phase = "copy" /\ ptr_[src] # Null /\ CopyConstruct(h, src) /\ RefFrame

\* Releases begin once every copy has completed.
RefRelease(h) ==
    /\ \A g \in Handles : pc[g] \notin {"add_load", "add_inc"}
    /\ ptr_[h] # Null
    /\ phase' = "release"
    /\ UNCHANGED <<raw, adopted>>
    /\ UNCHANGED tvars

NextRef ==
    \/ \E h \in Handles : RefMake(h)
    \/ \E h, src \in Handles : RefCopy(h, src)
    \/ \E h \in Handles : RefRelease(h) /\ Destructor(h)
    \/ \E h \in Handles : RefRelease(h) /\ Clear(h)
    \/ \E h \in Handles : AddRef_Load(h) /\ RefFrame
    \/ \E h \in Handles : AddRef_FetchAdd(h) /\ RefFrame
    \/ \E h \in Handles : ReleaseRef_Load(h) /\ RefFrame
    \/ \E h \in Handles : ReleaseRef_FetchSub(h) /\ RefFrame
    \/ \E h \in Handles : ReleaseRef_Check(h) /\ RefFrame
    \/ \E h \in Handles : ReleaseRef_Delete(h) /\ RefFrame
    \/ \E h \in Handles : ReleaseRef_Return(h) /\ RefFrame

SpecRef == Init /\ [][NextRef]_vars

(***************************************************************************)
(* SpecSeq: one thread; an operation runs to its end before the next one   *)
(* begins.                                                                 *)
(***************************************************************************)
Alone(h) == \A g \in Handles : g # h => Idle(g)

SeqFrame(h) == Alone(h) /\ UNCHANGED <<phase, raw, adopted>> /\ UNCHANGED tvars

\* The frame of the operations that hand raw pointers over.
RawFrame(h) == Alone(h) /\ UNCHANGED <<phase, adopted>> /\ UNCHANGED tvars

NextSeq ==
    \/ \E h \in Handles : Make(h) /\ SeqFrame(h)
    \/ \E h, src \in Handles : CopyConstruct(h, src) /\ SeqFrame(h)
    \/ \E h, src \in Handles : CopyAssign(h, src) /\ SeqFrame(h)
    \/ \E h \in Handles : Destructor(h) /\ SeqFrame(h)
    \/ \E h \in Handles : Clear(h) /\ SeqFrame(h)
    \/ \E h \in Handles : AddRef_Load(h) /\ SeqFrame(h)
    \/ \E h \in Handles : AddRef_FetchAdd(h) /\ SeqFrame(h)
    \/ \E h \in Handles : ReleaseRef_Load(h) /\ SeqFrame(h)
    \/ \E h \in Handles : ReleaseRef_FetchSub(h) /\ SeqFrame(h)
    \/ \E h \in Handles : ReleaseRef_Check(h) /\ SeqFrame(h)
    \/ \E h \in Handles : ReleaseRef_Delete(h) /\ SeqFrame(h)
    \/ \E h \in Handles : ReleaseRef_Return(h) /\ SeqFrame(h)
    \/ \E h \in Handles : CopyAssign_SetPtr(h) /\ SeqFrame(h)
    \/ \E h \in Handles : ReleaseRaw(h) /\ RawFrame(h)
    \/ \E h \in Handles, p \in Blocks \cup {Null} : AdoptRaw(h, p) /\ RawFrame(h)
    \/ \E h \in Handles, p \in Blocks \cup {Null} : CopyRaw(h, p) /\ RawFrame(h)

SpecSeq == Init /\ [][NextSeq]_vars

(***************************************************************************)
(* SpecOwn: SpecSeq without the raw pointers: one thread that makes,       *)
(* copies, assigns, clears and destroys handles.                           *)
(***************************************************************************)
NextOwn ==
    \/ \E h \in Handles : Make(h) /\ SeqFrame(h)
    \/ \E h, src \in Handles : CopyConstruct(h, src) /\ SeqFrame(h)
    \/ \E h, src \in Handles : CopyAssign(h, src) /\ SeqFrame(h)
    \/ \E h \in Handles : AssignNull(h) /\ SeqFrame(h)
    \/ \E h \in Handles : Destructor(h) /\ SeqFrame(h)
    \/ \E h \in Handles : Clear(h) /\ SeqFrame(h)
    \/ \E h \in Handles : AddRef_Load(h) /\ SeqFrame(h)
    \/ \E h \in Handles : AddRef_FetchAdd(h) /\ SeqFrame(h)
    \/ \E h \in Handles : ReleaseRef_Load(h) /\ SeqFrame(h)
    \/ \E h \in Handles : ReleaseRef_FetchSub(h) /\ SeqFrame(h)
    \/ \E h \in Handles : ReleaseRef_Check(h) /\ SeqFrame(h)
    \/ \E h \in Handles : ReleaseRef_Delete(h) /\ SeqFrame(h)
    \/ \E h \in Handles : ReleaseRef_Return(h) /\ SeqFrame(h)
    \/ \E h \in Handles : CopyAssign_SetPtr(h) /\ SeqFrame(h)

SpecOwn == Init /\ [][NextOwn]_vars

(***************************************************************************)
(* SpecMove: one thread makes, copies, moves and destroys handles.         *)
(***************************************************************************)
NextMove ==
    \/ \E h \in Handles : Make(h) /\ SeqFrame(h)
    \/ \E h, src \in Handles : CopyConstruct(h, src) /\ SeqFrame(h)
    \/ \E h, src \in Handles : MoveConstruct(h, src) /\ SeqFrame(h)
    \/ \E h, src \in Handles : MoveAssign(h, src) /\ SeqFrame(h)
    \/ \E h \in Handles : Destructor(h) /\ SeqFrame(h)
    \/ \E h \in Handles : AddRef_Load(h) /\ SeqFrame(h)
    \/ \E h \in Handles : AddRef_FetchAdd(h) /\ SeqFrame(h)
    \/ \E h \in Handles : ReleaseRef_Load(h) /\ SeqFrame(h)
    \/ \E h \in Handles : ReleaseRef_FetchSub(h) /\ SeqFrame(h)
    \/ \E h \in Handles : ReleaseRef_Check(h) /\ SeqFrame(h)
    \/ \E h \in Handles : ReleaseRef_Delete(h) /\ SeqFrame(h)
    \/ \E h \in Handles : ReleaseRef_Return(h) /\ SeqFrame(h)
    \/ \E h \in Handles : MoveAssign_SetPtr(h) /\ SeqFrame(h)

SpecMove == Init /\ [][NextMove]_vars

(***************************************************************************)
(* SpecRaw: one thread hands the reference of a handle out as a raw        *)
(* pointer, once per block, and adopts that pointer not at all, once or    *)
(* twice; handles are made, copied and destroyed around it.                *)
(***************************************************************************)
UseFrame(h) == Alone(h) /\ UNCHANGED phase /\ UNCHANGED tvars

\* The one ReleaseRaw() of a block.
HandOut(h) ==
    /\ ptr_[h] # Null
    /\ raw[ptr_[h]] + adopted[ptr_[h]] = 0
    /\ ReleaseRaw(h)
    /\ UNCHANGED adopted

\* An AdoptRaw() of the pointer that was handed out: the first or the second.
TakeBack(h, p) ==
    /\ raw[p] + adopted[p] = 1
    /\ adopted[p] < 2
    /\ AdoptRawUnchecked(h, p)
    /\ adopted' = [adopted EXCEPT ![p] = @ + 1]

NextRaw ==
    \/ \E h \in Handles : Make(h) /\ SeqFrame(h)
    \/ \E h, src \in Handles : CopyConstruct(h, src) /\ SeqFrame(h)
    \/ \E h \in Handles : Destructor(h) /\ SeqFrame(h)
    \/ \E h \in Handles : AddRef_Load(h) /\ SeqFrame(h)
    \/ \E h \in Handles : AddRef_FetchAdd(h) /\ SeqFrame(h)
    \/ \E h \in Handles : ReleaseRef_Load(h) /\ SeqFrame(h)
    \/ \E h \in Handles : ReleaseRef_FetchSub(h) /\ SeqFrame(h)
    \/ \E h \in Handles : ReleaseRef_Check(h) /\ SeqFrame(h)
    \/ \E h \in Handles : ReleaseRef_Delete(h) /\ SeqFrame(h)
    \/ \E h \in Handles : ReleaseRef_Return(h) /\ SeqFrame(h)
    \/ \E h \in Handles : HandOut(h) /\ UseFrame(h)
    \/ \E h \in Handles, p \in Blocks : TakeBack(h, p) /\ UseFrame(h)

SpecRaw == Init /\ [][NextRaw]_vars

(***************************************************************************)
(* SpecLex: lexers constructed with each punctuation string and stop word  *)
(* list tokenize the bounded texts, with stemming disabled.                *)
(***************************************************************************)
NextLex ==
    \E text \in Texts, punctuation \in Punctuations, stop_words \in StopWordLists :
        DoTokenize(text, punctuation, stop_words) /\ UNCHANGED hvars

SpecLex == Init /\ [][NextLex]_vars

(***************************************************************************)
(* SpecScan: one Tokenize call followed through the iterations of its      *)
(* loop, with stemming disabled or enabled.                                *)
(***************************************************************************)
NextScan ==
    \/ /\ lex.op = "none"
       /\ \E text \in Texts, punctuation \in Punctuations, stop_words \in StopWordLists,
             stemming_enabled \in BOOLEAN, min_stem_size \in MinStemSizes :
               ScanBegin(text, punctuation, stop_words, stemming_enabled, min_stem_size)
                   /\ UNCHANGED hvars
    \/ ScanStep /\ UNCHANGED hvars
    \/ ScanReturn /\ UNCHANGED hvars

SpecScan == Init /\ [][NextScan]_vars

(***************************************************************************)
(* SpecAlloc: any sequence of calls of the rax allocator.                  *)
(***************************************************************************)
NextAlloc ==
    \/ \E size \in AllocSizes : rax_malloc(size) /\ UNCHANGED hvars
    \/ \E ptr \in {Null} \cup AllocAddrs, size \in AllocSizes :
           rax_realloc(ptr, size) /\ UNCHANGED hvars
    \/ \E ptr \in {Null} \cup AllocAddrs : rax_free(ptr) /\ UNCHANGED hvars
    \/ \E ptr \in {Null} \cup AllocAddrs : rax_ptr_alloc_size(ptr) /\ UNCHANGED hvars

SpecAlloc == Init /\ [][NextAlloc]_vars

(***************************************************************************)
(* Claims about InvasivePtr                                                *)
(***************************************************************************)

\* Handle h still owns a reference to block b that it has not yet given up:
\* its fetch_sub has not run.
Owns(h, b) == ptr_[h] = b /\ pc[h] \in {"idle", "rel_load", "rel_sub", "add_load", "add_inc"}

\* Every handle that referred to block b has completed its release.
AllReleased(b) == heap[b] # "unused" /\ \A h \in Handles : ptr_[h] # b

\* C1 (as claimed): after N copies and N+1 releases by concurrent threads, in
\* any interleaving of their atomic steps, the value is destroyed exactly once,
\* and only after the final release: never twice, never while a handle still
\* owns a reference, and once every release has completed it has been destroyed.
C1_DestroyedExactlyOnce ==
    \A b \in Blocks :
        /\ destroyed[b] <= 1
        /\ destroyed[b] >= 1 => \A h \in Handles : ~Owns(h, b)
        /\ AllReleased(b) => destroyed[b] = 1

\* A copy assignment `slot = returned` in progress on handle h whose two sides are
\* distinct handles of the same block: MutateTarget installing the handle its
\* mutate function returned when that is the handle it was given.
SameBlockAssign(h) ==
    /\ op[h].kind = "assign"
    /\ op[h].old # Null
    /\ ptr_[op[h].other] = op[h].old

\* ReleaseRef's fetch_sub has run in the operation on h: the old reference is dropped.
OldDropped(h) ==
    pc[h] \in {"rel_check", "rel_delete", "released", "assign", "add_load", "add_inc"}

\* ptr_ has been set and AddRef's fetch_add has run: the new reference is installed.
NewInstalled(h) == pc[h] = "idle"

RECURSIVE SortedWords(_)
SortedWords(S) ==
    IF S = {} THEN <<>>
    ELSE <<MinWord(S)>> \o SortedWords(S \ {MinWord(S)})

\* The elements of a sequence.
Range(q) == {q[i] : i \in 1 .. Len(q)}

\* The stored words that start with prefix.
WithPrefix(r, prefix) == {k \in Keys(r) : StartsWith(k, prefix)}

\* The caller's loop has run to its end on the iterator.
LoopFinished == iter.open /\ pure /\ WordIterator_Done(iter)

\* C2 (as claimed): after inserting unique non-empty words in any order, the
\* loop over GetWordIterator("") reads exactly the stored words, each exactly
\* once, in strictly ascending order: no word is read twice while the loop
\* runs, and a finished loop has read the sorted list of the stored words.
C2_WholeTreeIterationOnce ==
    (iter.open /\ pure /\ iter.prefix_ = <<>>) =>
        /\ \A i, j \in 1 .. Len(yielded) : i < j => LexLess(yielded[i], yielded[j])
        /\ WordIterator_Done(iter) => yielded = SortedWords(Keys(rax))

\* C3 (as claimed): for every prefix P the loop over GetWordIterator(P) reads
\* exactly the stored words that start with P, in ascending order, and the
\* iterator is Done() right after construction if the least stored word >= P
\* does not start with P or does not exist.
C3_PrefixIteration ==
    /\ LoopFinished => yielded = SortedWords(WithPrefix(rax, iter.prefix_))
    /\ (iter.open /\ last.op = "GetWordIterator") =>
          LET ge == {k \in Keys(rax) : LexLeq(iter.prefix_, k)}
          IN  (ge = {} \/ ~StartsWith(MinWord(ge), iter.prefix_))
                  => WordIterator_Done(iter)

\* C4 (as claimed): for every prefix P, GetWordCount(P) is the number of stored
\* words that start with P, the words GetWordIterator(P) ranges over.
C4_WordCountIsPrefixCount ==
    \A prefix \in Words :
        GetWordCount(rax, prefix) = Cardinality(WithPrefix(rax, prefix))

Delete == [kind |-> "del", v |-> Null]
Identity == [kind |-> "id", v |-> Null]

\* C5: a MutateTarget whose mutate function returns nullptr lowers
\* GetTotalWordCount() by 1 if the word was stored and by 0 if not, removes that
\* word and leaves every other word stored with its target; and every finished
\* iteration, under any prefix, has read the words then stored with that prefix
\* and no other word, so an iteration after the deletion excludes the deleted
\* word and still reads all the others.
C5_DeleteRemovesWord ==
    /\ [][\A w \in Words \ {<<>>} :
            (last'.kind = "del" /\ DoMutateTarget(w, Delete)) =>
               /\ GetTotalWordCount(rax') =
                      GetTotalWordCount(rax) - (IF w \in Keys(rax) THEN 1 ELSE 0)
               /\ Keys(rax') = Keys(rax) \ {w}
               /\ \A v \in Keys(rax') : rax'.data[v] = rax.data[v]]_vars
    /\ [](LoopFinished => Range(yielded) = WithPrefix(rax, iter.prefix_))

\* C5 witness: a stored word has been deleted and another word is still stored.
C5_Witness ==
    /\ last.op = "MutateTarget" /\ last.kind = "del" /\ last.arg # Null
    /\ GetTotalWordCount(rax) = 1
    /\ Len(IterateWords(rax, <<>>)) >= 1

\* C6: MutateTarget with the identity function changes nothing: the tree is the
\* one it was, so the total count, every word's target and what an iteration
\* reads, in what order, stay as they were; the function returns the target it
\* was given; and a word that was absent is still absent for the next lookup.
C6_IdentityIsNoOp ==
    [][\A w \in Words \ {<<>>} :
         (last'.kind = "id" /\ DoMutateTarget(w, Identity)) =>
            /\ GetTotalWordCount(rax') = GetTotalWordCount(rax)
            /\ rax' = rax
            /\ last'.result = last'.arg
            /\ w \notin Keys(rax) =>
                  /\ w \notin Keys(rax')
                  /\ MutateTarget(rax', w, Identity).arg = Null]_vars

\* C6 witness: the identity function has been applied to a stored word while
\* another word is stored too.
C6_Witness ==
    /\ last.op = "MutateTarget" /\ last.kind = "id" /\ last.arg # Null
    /\ GetTotalWordCount(rax) = 2

\* C7: GetTotalWordCount() is the number of words whose most recent MutateTarget
\* returned a target.
C7_TotalCountIsInstalledWords ==
    GetTotalWordCount(rax) = Cardinality({w \in Words : installed[w] # Null})

\* C7 witness: the target of a stored word has just been replaced by another one,
\* after an insertion of a second word.
C7_Witness ==
    /\ last.op = "MutateTarget" /\ last.kind = "set"
    /\ last.arg # Null /\ last.result # last.arg
    /\ GetTotalWordCount(rax) = 2

C9_EmptyWordIsFatal ==
    [][\A fn \in MutateFns :
         DoMutateTarget(<<>>, fn) =>
            /\ fatal'
            /\ last'.calls = 0
            /\ Keys(rax') = Keys(rax)
            /\ rax'.data = rax.data
            /\ GetTotalWordCount(rax') = GetTotalWordCount(rax)]_vars

\* C9 witness: the process was aborted by a MutateTarget call on a tree that
\* stores words.
C9_Witness ==
    /\ fatal /\ last.op = "MutateTarget" /\ last.calls = 0
    /\ Keys(rax) # {}

\* C11: in every state in which MutateTarget can be called, for every word and
\* mutate function: the function is handed the target the most recent earlier
\* call for the same word installed (nullptr if there was none or it deleted the
\* word); the call returns what the function returned, and that is what the
\* next lookup of the word is handed and what an iterator positioned on the word
\* reports (no iterator finds the word if it is nullptr).
C11_MutateSeesAndInstallsTarget ==
    (~fatal /\ ~iter.open) =>
        \A w \in Words \ {<<>>}, fn \in MutateFns :
            LET m == MutateTarget(rax, w, fn)
                it == WordIterator(m.rax, w)
            IN  /\ m.arg = installed[w]
                /\ m.result = Apply(fn, installed[w])
                /\ MutateTarget(m.rax, w, Identity).arg = m.result
                /\ IF m.result = Null
                   THEN WordIterator_Done(it) \/ WordIterator_GetWord(it) # w
                   ELSE /\ ~WordIterator_Done(it)
                        /\ WordIterator_GetWord(it) = w
                        /\ WordIterator_GetTarget(it) = m.result

\* C11 witness: the only stored word has had its target replaced by another one.
C11_Witness ==
    /\ last.op = "MutateTarget" /\ last.kind = "set"
    /\ last.arg # Null /\ last.result # last.arg
    /\ GetTotalWordCount(rax) = 1

(***************************************************************************)
(* Claims about Next(), SeekForward(), GetWord() and GetTarget()           *)
(***************************************************************************)

\* C12 (as claimed): a SeekForward(w) on an iterator that is not Done() and
\* stands on word c leaves the iterator Done() or on a word >= c, whatever w is.
C12_SeekForwardNeverBackward ==
    [][(last'.op = "SeekForward" /\ iter.open /\ ~WordIterator_Done(iter)) =>
          \/ WordIterator_Done(iter')
          \/ LexLeq(WordIterator_GetWord(iter), WordIterator_GetWord(iter'))]_vars

\* C13: for an iterator that is not Done() and every word w that starts with its
\* prefix, SeekForward(w) lands on the least stored word >= w if there is one
\* and it starts with the prefix, and makes the iterator Done() otherwise; it
\* returns true iff it landed on w itself.
C13_SeekForwardLandsOnLeastGeq ==
    (iter.open /\ ~WordIterator_Done(iter)) =>
        \A w \in Words :
            StartsWith(w, iter.prefix_) =>
                LET sk == WordIterator_SeekForward(rax, iter, w)
                    ge == {k \in Keys(rax) : LexLeq(w, k)}
                IN  IF ge # {} /\ StartsWith(MinWord(ge), iter.prefix_)
                    THEN /\ ~WordIterator_Done(sk.it)
                         /\ WordIterator_GetWord(sk.it) = MinWord(ge)
                         /\ sk.ret <=> (MinWord(ge) = w)
                    ELSE /\ WordIterator_Done(sk.it)
                         /\ ~sk.ret

\* C13 witness: a SeekForward on an iterator with a non-empty prefix has landed
\* on a word after the one it was given, with another stored word before it.
C13_Witness ==
    /\ iter.open /\ last.op = "SeekForward" /\ ~last.done
    /\ last.result = 0 /\ ~WordIterator_Done(iter)
    /\ iter.prefix_ # <<>>
    /\ \E k \in Keys(rax) : LexLess(k, WordIterator_GetWord(iter))

\* C14: Done() is absorbing: a Next() or SeekForward() called on an iterator
\* that is Done(), however it became so, leaves it Done(), and the SeekForward
\* returns false.
C14_DoneIsAbsorbing ==
    (iter.open /\ last.op \in {"Next", "SeekForward"} /\ last.done) =>
        /\ WordIterator_Done(iter)
        /\ last.op = "SeekForward" => last.result = 0

\* C14 witness: a SeekForward was called on an iterator that was Done() although
\* it stands on a stored word (a SeekForward with a word outside the prefix, or
\* a Next() that left the prefix, made it so).
C14_Witness ==
    /\ iter.open /\ last.op = "SeekForward" /\ last.done
    /\ ~raxEOF(iter.iter_)
    /\ WordIterator_GetWord(iter) \in Keys(rax)

Owners(b) == {h \in Handles : live[h] /\ ptr_[h] = b}
AtRest == \A h \in Handles : Idle(h)

\* C20: ReleaseRaw() leaves the handle empty and the counter as it was;
\* AdoptRaw() leaves the counter as it was; CopyRaw() raises the counter by
\* exactly one, and for a null pointer yields an empty handle without touching
\* any counter.  Hence a block's counter always equals its owning handles plus
\* the raw pointers handed out, and AdoptRaw(ReleaseRaw(h)) owns the block h
\* owned with the counter h left.
C20_RawHandOffKeepsCounter ==
    /\ [][\A h \in Handles :
            /\ ReleaseRaw(h) =>
                   /\ ptr_'[h] = Null
                   /\ refcount_' = refcount_ /\ heap' = heap /\ destroyed' = destroyed
            /\ \A p \in Blocks \cup {Null} :
                   /\ AdoptRaw(h, p) =>
                          /\ ptr_'[h] = p /\ pc'[h] = "idle"
                          /\ refcount_' = refcount_ /\ heap' = heap
                   /\ CopyRaw(h, p) =>
                          /\ ptr_'[h] = p /\ refcount_' = refcount_
                          /\ p = Null => pc'[h] = "idle" /\ uaf' = uaf
            /\ (op[h].kind = "copyraw" /\ pc'[h] = "idle") =>
                   /\ op[h].old = ptr_[h]
                   /\ refcount_' = [refcount_ EXCEPT ![ptr_[h]] = @ + 1]
          ]_vars
    /\ [](~uaf /\ (AtRest => \A b \in Blocks :
                heap[b] = "live" => refcount_[b] = Cardinality(Owners(b)) + raw[b]))

\* A raw pointer to a block is outstanding, and CopyRaw() on it has made the
\* only handle that owns the block: the counter is two.
C20_Witness ==
    /\ AtRest
    /\ \E b \in Blocks :
           /\ raw[b] = 1 /\ heap[b] = "live"
           /\ Cardinality(Owners(b)) = 1 /\ refcount_[b] = 2

\* C17 (as claimed): GetLongestWord() is the length in bytes of the longest
\* stored word, and 0 for an empty tree.
C17_LongestWordIsMaxLength ==
    GetLongestWord(rax) = IF Keys(rax) = {} THEN 0
                          ELSE Max({Len(k) : k \in Keys(rax)})

\* A word with the order of its bytes reversed.
Reverse(w) == [i \in 1 .. Len(w) |-> w[Len(w) + 1 - i]]

C16_NodeInvariant ==
    \A p \in Words :
        /\ nodes[p].kind = "branch" =>
               ~(Cardinality(nodes[p].bytes) = 1 /\ nodes[p].target = Null)
        /\ nodes[p].kind = "comp" => Len(nodes[p].label) >= 1
        /\ nodes[p].target = rax.data[p]

\* A deletion has left one word of two bytes behind, and the branch point
\* that the deleted word made is merged away: the root is a Compressed node
\* with the whole word as its label.
C16_Witness ==
    /\ last.op = "MutateTarget" /\ last.kind = "del" /\ last.arg # Null
    /\ GetTotalWordCount(rax) = 1
    /\ nodes[<<>>].kind = "comp" /\ Len(nodes[<<>>].label) = 2

Counted(h, b) == live[h] /\ ptr_[h] = b /\ pc[h] \in {"idle", "rel_load", "rel_sub"}

\* C21: in every state of a single-threaded program that uses Make, copy
\* construction, copy assignment (self-assignment and assignment between
\* handles of one block included), assignment of nullptr, Clear and
\* destruction, the counter of each live block is the number of handles that
\* refer to it (1 right after Make), and a block is freed exactly when that
\* number reaches zero: never earlier, never twice, and no later than the end
\* of the operation that dropped the last reference.
C21_CounterIsHandleCount ==
    /\ ~uaf
    /\ \A b \in Blocks :
           /\ heap[b] = "live" =>
                  refcount_[b] = Cardinality({h \in Handles : Counted(h, b)})
           /\ heap[b] = "freed" =>
                  /\ destroyed[b] = 1
                  /\ \A h \in Handles : ~Counted(h, b)
           /\ (AtRest /\ heap[b] # "unused" /\ Owners(b) = {}) => heap[b] = "freed"
           /\ (AtRest /\ heap[b] = "live") => refcount_[b] >= 1

\* One block has been freed and two handles share the other.
C21_Witness ==
    /\ AtRest
    /\ \E b, c \in Blocks :
           heap[b] = "freed" /\ heap[c] = "live" /\ Cardinality(Owners(c)) = 2

\* Every handle has been destroyed.
AllGone == AtRest /\ \A h \in Handles : ~live[h]

\* C22: for the one ReleaseRaw() of a block, the value is destroyed exactly
\* once and never while referenced only if the raw pointer is consumed by
\* exactly one AdoptRaw(): never adopted, the block is never freed (a leak);
\* adopted twice, the block is freed while a handle still refers to it, which
\* shows as a use after free or a double free when that handle goes.
C22_OneAdoptPerRelease ==
    /\ (\A b \in Blocks : adopted[b] <= 1) =>
           /\ ~uaf
           /\ \A b \in Blocks :
                  /\ destroyed[b] <= 1
                  /\ heap[b] = "freed" => \A h \in Handles : ~Counted(h, b)
    /\ \A b \in Blocks :
           raw[b] + adopted[b] = 1 =>
               /\ adopted[b] = 0 => heap[b] = "live" /\ destroyed[b] = 0
               /\ (adopted[b] = 1 /\ AllGone) => heap[b] = "freed" /\ destroyed[b] = 1
               /\ (adopted[b] = 2 /\ AllGone) => uaf
               /\ (adopted[b] = 2 /\ AtRest /\ heap[b] = "freed") =>
                      uaf \/ \E h \in Handles : live[h] /\ ptr_[h] = b

\* The raw pointer of a block was adopted twice and both handles have been
\* destroyed: the second destructor ran on a freed block.
C22_Witness ==
    \E b \in Blocks : raw[b] + adopted[b] = 1 /\ adopted[b] = 2 /\ AllGone /\ uaf

(***************************************************************************)
(* Claims about the path iterator                                          *)
(***************************************************************************)

\* The least byte of a set, Null for the empty set (the iterator is Done).
LeastByte(S) == IF S = {} THEN Null ELSE CHOOSE b \in S : \A c \in S : b <= c

\* C23 (as claimed): a PathIterator enumerates the next bytes of its node in
\* strictly ascending order: Next() moves to the next larger available byte or
\* makes the iterator Done(), and SeekForward(t) moves to the least available
\* byte >= t (Done if none) and returns true iff that byte is t.
C23_PathIteratorAscending ==
    \A prefix \in Words :
        LET pit == GetPathIterator(rax, prefix)
            bs == NextBytes(rax, prefix)
            n == PathIterator_Next(pit)
        IN  pit.cur # Null =>
                /\ ~n.threw /\ ~n.fatal
                /\ n.ret.path = prefix
                /\ n.ret.cur = LeastByte({b \in bs : b > pit.cur})
                /\ \A t \in Bytes :
                       LET sk == PathIterator_SeekForward(pit, t)
                       IN  /\ ~sk.threw /\ ~sk.fatal
                           /\ sk.ret.found = (t \in bs)
                           /\ sk.ret.it.cur = LeastByte({b \in bs : b >= t})

\* C24 (as claimed): traversal does not depend on path compression:
\* DescendNew() on an iterator inside a Compressed edge yields an iterator one
\* byte deeper that exposes exactly the next byte of the edge, and IsWord() and
\* CanDescend() are what they are on the uncompressed trie of the same words.
C24_DescendIgnoresCompression ==
    \A prefix \in Words :
        LET pit == GetPathIterator(rax, prefix)
            below == prefix \o <<pit.cur>>
            cd == PathIterator_CanDescend(pit)
            d == PathIterator_DescendNew(pit)
        IN  (pit.cur # Null /\ NextBytes(rax, below) # {}) =>
                /\ ~cd.threw /\ cd.ret = TRUE
                /\ ~d.threw /\ ~d.fatal
                /\ d.ret = GetPathIterator(rax, below)
                /\ nodes[below].kind = "none" =>
                       Cardinality(NextBytes(rax, below)) = 1
                /\ ~PathIterator_IsWord(d.ret).threw
                /\ PathIterator_IsWord(d.ret).ret = (below \in Keys(rax))

\* C25 (as claimed): DescendNew() when CanDescend() is false, and GetTarget()
\* when IsWord() is false, end in the fatal contract-violation state; when the
\* precondition holds they succeed.
C25_PathPreconditionsAreFatal ==
    \A prefix \in Words :
        LET pit == GetPathIterator(rax, prefix)
            below == prefix \o <<pit.cur>>
            d == PathIterator_DescendNew(pit)
            g == PathIterator_GetTarget(pit)
        IN  Keys(rax) # {} =>
                /\ IF prefix \in Keys(rax)
                   THEN ~g.threw /\ ~g.fatal /\ g.ret = rax.data[prefix]
                   ELSE g.fatal
                /\ IF pit.cur # Null /\ NextBytes(rax, below) # {}
                   THEN ~d.threw /\ ~d.fatal
                   ELSE d.fatal

\* C26 (as claimed): IsWord() is true iff the bytes consumed so far (the
\* prefix the iterator was made on plus the bytes descended) are a stored word.
C26_IsWordIffStored ==
    \A prefix \in Words :
        LET w == PathIterator_IsWord(GetPathIterator(rax, prefix))
        IN  Keys(rax) # {} =>
                ~w.threw /\ ~w.fatal /\ w.ret = (prefix \in Keys(rax))

(***************************************************************************)
(* Claims about the lexer                                                  *)
(***************************************************************************)
\* A text is well-formed UTF-8 when it can be cut into characters, each a lead
\* byte followed by exactly the continuation bytes the lead byte announces.
WellFormedUtf8(text) ==
    LET end == Len(text) + 1
    IN  \E cuts \in SUBSET (1 .. end) :
            /\ 1 \in cuts /\ end \in cuts
            /\ \A i \in cuts \ {end} :
                   LET j == CHOOSE j \in cuts : j > i /\ \A k \in cuts : k > i => j <= k
                   IN  /\ j - i = Utf8Len(text[i])
                       /\ \A k \in i + 1 .. j - 1 : IsContinuation(text[k])

MaximalRuns(text, punct) ==
    {r \in (1 .. Len(text)) \X (1 .. Len(text)) :
        /\ r[1] <= r[2]
        /\ \A i \in r[1] .. r[2] : text[i] \notin punct
        /\ r[1] = 1 \/ text[r[1] - 1] \in punct
        /\ r[2] = Len(text) \/ text[r[2] + 1] \in punct}

\* The runs in input order, each lower-cased (A-Z to a-z, other bytes kept).
LoweredRuns(text, punct) ==
    LET R == MaximalRuns(text, punct)
        n == Cardinality(R)
        order == CHOOSE f \in [1 .. n -> R] :
                     \A i, j \in 1 .. n : i < j => f[i][1] < f[j][1]
    IN  [i \in 1 .. n |->
            [k \in 1 .. order[i][2] - order[i][1] + 1 |->
                LET c == text[order[i][1] + k - 1]
                IN  IF c >= 65 /\ c <= 90 THEN c + 32 ELSE c]]

\* The punctuation bytes and the lower-cased stop words of the lexer of the
\* most recent call, and the tokens the claim expects of it.
LexPunct ==
    {c \in 0 .. 255 : c <= 32 \/ c = 127} \cup
    {lex.punctuation[i] : i \in 1 .. Len(lex.punctuation)}

LexStops ==
    {[k \in 1 .. Len(w) |-> IF w[k] >= 65 /\ w[k] <= 90 THEN w[k] + 32 ELSE w[k]] :
        w \in lex.stop_words}

ExpectedTokens ==
    SelectSeq(LoweredRuns(lex.text, LexPunct), LAMBDA w : w \notin LexStops)

\* C28 (as stated): with stemming disabled the tokens are, in input order, the
\* lower-cased maximal runs of non-punctuation bytes minus the stop words, and
\* every token is non-empty and contains no punctuation byte.
C28_TokensHaveNoPunctuation ==
    (lex.op = "Tokenize" /\ lex.status = "ok") =>
        /\ lex.tokens = ExpectedTokens
        /\ \A i \in 1 .. Len(lex.tokens) :
               /\ lex.tokens[i] # <<>>
               /\ \A k \in 1 .. Len(lex.tokens[i]) : lex.tokens[i][k] \notin LexPunct

\* No lower-case letter is a punctuation byte while its upper-case form is not.
PunctuationIgnoresCase ==
    \A c \in 97 .. 122 : c \in LexPunct => c - 32 \in LexPunct

\* C28 (amended): the tokens are, in input order, the lower-cased maximal runs
\* of non-punctuation bytes minus the stop words; every token is non-empty; a
\* token contains no punctuation byte when no lower-case letter is punctuation
\* without its upper-case form, and otherwise any punctuation byte in a token
\* is such a lower-case letter.
C28_TokensAreLoweredRuns ==
    (lex.op = "Tokenize" /\ lex.status = "ok") =>
        /\ lex.tokens = ExpectedTokens
        /\ \A i \in 1 .. Len(lex.tokens) :
               /\ lex.tokens[i] # <<>>
               /\ \A k \in 1 .. Len(lex.tokens[i]) :
                      LET c == lex.tokens[i][k]
                      IN  c \in LexPunct =>
                              /\ ~PunctuationIgnoresCase
                              /\ c \in 97 .. 122 /\ c - 32 \notin LexPunct

\* A text with an upper-case word, a separator and a stop word gave one token.
C28_Witness ==
    /\ lex.op = "Tokenize" /\ lex.status = "ok"
    /\ lex.stop_words # {}
    /\ PunctuationIgnoresCase
    /\ \E i \in 1 .. Len(lex.text) : lex.text[i] = 65
    /\ Cardinality(MaximalRuns(lex.text, LexPunct)) = 2
    /\ Len(lex.tokens) = 1
    /\ lex.tokens[1] = <<98>>

(***************************************************************************)
(* Claims about the wrapper against the raw rax protocol                   *)
(***************************************************************************)
\* raxFind(rax, key, len): the key's data, raxNotFound (Null) when it is absent.
raxFind(r, w) == r.data[w]

\* The raw protocol of the comparison tests:
\*     raxStart; raxSeek(">=", prefix);
\*     while (raxNext) { if (key does not start with prefix) break; count++; }
\* as the keys it counts, in order.
RECURSIVE RawLoop(_, _, _, _)
RawLoop(r, it, prefix, acc) ==
    LET nx == raxNext(r, it)
    IN  IF ~nx.ret \/ ~StartsWith(nx.it.key, prefix) THEN acc
        ELSE RawLoop(r, nx.it, prefix, Append(acc, nx.it.key))

RawPrefixIteration(r, prefix) == RawLoop(r, raxSeek(r, raxStart, prefix).it, prefix, <<>>)

\* C29 (as claimed): after the same insertions, a finished wrapper loop under
\* prefix P has visited the same keys, each the same number of times, as the
\* raw loop (raxSeek ">=" P, raxNext until the first key without the prefix),
\* and a lookup through MutateTarget(key, identity) finds a key exactly when
\* raxFind does.
C29_WrapperAgreesWithRawRax ==
    /\ LoopFinished => yielded = RawPrefixIteration(rax, iter.prefix_)
    /\ \A key \in Words \ {<<>>} :
           (MutateTarget(rax, key, Identity).arg # Null) <=> (raxFind(rax, key) # Null)

\* C30 (as claimed): GetWordCount(prefix) is the count kept at the node reached
\* by exactly the bytes of prefix, the number of words ending in its subtree,
\* and zero when the walk reaches no node (it leaves the tree or ends inside a
\* compressed edge).
C30_WordCountOfExactNode ==
    \A prefix \in Words :
        GetWordCount(rax, prefix) =
            IF nodes[prefix].kind = "none" THEN 0
            ELSE Cardinality({k \in Keys(rax) : StartsWith(k, prefix)})

DebugGetTreeStrings(T) ==
    {<<p, T[p].kind, T[p].label, T[p].bytes, T[p].target # Null>> :
        p \in {q \in Words : T[q].kind # "none"}}

C34_NoCounterAccessAfterFree ==
    [][ \A h \in Handles :
          (pc[h] \in {"rel_load", "rel_sub", "rel_check"} /\ pc'[h] # pc[h])
              => heap[ptr_[h]] = "live" ]_vars

\* C35 (as claimed): move construction and move assignment never change the
\* counter of the block that is moved, and leave the source handle empty; move
\* assignment releases the destination's previous reference exactly once; a
\* move assignment of a handle to itself changes nothing.
C35_MoveNeverChangesMovedCounter ==
    [][ \A h, src \in Handles :
          /\ MoveConstruct(h, src) =>
                 /\ refcount_' = refcount_
                 /\ ptr_'[h] = ptr_[src] /\ ptr_'[src] = Null
          /\ MoveAssign(h, h) => (ptr_' = ptr_ /\ refcount_' = refcount_ /\ pc' = pc)
          /\ (op[h].kind = "move" /\ op[h].other = src) =>
                 /\ ptr_[src] # Null => refcount_'[ptr_[src]] = refcount_[ptr_[src]]
                 /\ pc[h] = "rel_sub" =>
                        refcount_'[op[h].old] = refcount_[op[h].old] - 1
                 /\ pc[h] = "move_assign" =>
                        ptr_'[h] = ptr_[src] /\ ptr_'[src] = Null ]_vars

\* C35 (amended): move construction changes no counter and leaves the source
\* empty; a move assignment changes one counter only, lowering by one, once,
\* the counter of the block the destination referred to before (which is the
\* moved block itself when both handles referred to one block), then takes the
\* source's pointer and leaves the source empty; a move assignment of a handle
\* to itself changes nothing.  Each live block's counter stays the number of
\* handles that refer to it.
C35_MoveReleasesOnlyOldReference ==
    /\ [][ \A h, src \in Handles :
             /\ MoveConstruct(h, src) =>
                    /\ refcount_' = refcount_
                    /\ ptr_'[h] = ptr_[src] /\ ptr_'[src] = Null
             /\ MoveAssign(h, h) => (ptr_' = ptr_ /\ refcount_' = refcount_ /\ pc' = pc)
             /\ (op[h].kind = "move" /\ op[h].other = src) =>
                    /\ \A b \in Blocks :
                           refcount_'[b] # refcount_[b] =>
                               /\ pc[h] = "rel_sub" /\ b = op[h].old
                               /\ refcount_'[b] = refcount_[b] - 1
                    /\ pc[h] = "rel_sub" =>
                           refcount_'[op[h].old] = refcount_[op[h].old] - 1
                    /\ pc[h] = "move_assign" =>
                           ptr_'[h] = ptr_[src] /\ ptr_'[src] = Null ]_vars
    /\ [](/\ ~uaf
          /\ \A b \in Blocks :
                 /\ heap[b] = "live" =>
                        refcount_[b] = Cardinality({h \in Handles : Counted(h, b)})
                 /\ destroyed[b] <= 1)

\* A move assignment between two handles of one block has released the
\* destination's reference, lowering the moved block's counter to 1, and is
\* about to take the source's pointer.
C35_Witness ==
    \E h \in Handles :
        /\ pc[h] = "move_assign" /\ op[h].kind = "move"
        /\ op[h].old # Null /\ ptr_[op[h].other] = op[h].old
        /\ heap[op[h].old] = "live" /\ refcount_[op[h].old] = 1

(***************************************************************************)
(* Claims about the loop of Tokenize                                       *)
(***************************************************************************)
\* C36: Tokenize terminates on every input: each iteration of its outer loop
\* strictly increases the scan position (also when the word scanned is a stop
\* word and the loop continues early) and the position never passes the end
\* of the text, so the loop has run at most len(text) iterations when its
\* condition fails; while the condition holds an iteration can run, and when it
\* fails Tokenize returns its tokens.
C36_TokenizeTerminates ==
    /\ [][ (lex.op = "scan" /\ lex'.op = "scan") =>
             /\ lex'.pos > lex.pos
             /\ lex'.iterations = lex.iterations + 1 ]_vars
    /\ [](lex.op \in {"scan", "returned"} =>
             /\ lex.iterations <= Len(lex.text)
             /\ lex.pos <= Len(lex.text) + 1)
    /\ [](lex.op = "scan" =>
             \/ lex.pos <= Len(lex.text) /\ lex.iterations < Len(lex.text)
             \/ lex.pos = Len(lex.text) + 1)
    /\ [][ (lex.op = "scan" /\ lex'.op = "returned") =>
             (lex.pos = Len(lex.text) + 1 /\ lex'.status = "ok") ]_vars

\* A text of a stop word, a separator and another word has been scanned in
\* two iterations, the first of which dropped the stop word.
C36_Witness ==
    /\ lex.op = "returned" /\ lex.status = "ok"
    /\ lex.iterations = 2 /\ Len(lex.text) = 3
    /\ lex.stop_words # {} /\ lex.text[1] = 65
    /\ Len(lex.tokens) = 1

====
